---- MODULE Spec2Model ----
(***************************************************************************)
(* Model of the migration plan generator (package migration,               *)
(* PlanGenerator.GeneratePlan and the conversion routines it drives).      *)
(*                                                                         *)
(* The generator is a sequential program.  Its position is pc; every call  *)
(* it makes to a collaborator (the source, the step emitters, the plugin   *)
(* converters, the deferred commit) is appended to the history variable    *)
(* calls, in program order, with the outcome the collaborator returned.    *)
(***************************************************************************)
EXTENDS Integers, Sequences, FiniteSets, TLC

\* Number of objects the source hands out in one run.
MaxObjects == 2

VARIABLES
    pc,                        \* position of GeneratePlan / convert
    calls,                     \* history of collaborator calls, in order
    cur,                       \* o: the object being processed
    nRead,                     \* number of objects read from the source
    convertedMR,               \* convert: ObjectReference -> replacements
    convertedComposition,      \* convert: old name -> migrated name
    composites,                \* convert: deferred composites
    claims,                    \* convert: deferred claims
    ret,                       \* error returned by GeneratePlan
    Plan,                      \* pg.Plan
    SkipGVKs,                  \* pg.SkipGVKs
    ErrorOnInvalidPatchSchema, \* pg.ErrorOnInvalidPatchSchema
    queue,                     \* e.queue of the EventHandler
    rateLimiterMap,            \* e.rateLimiterMap of the EventHandler
    enqueued,                  \* requests the inner handler added, per queue
    ehCalls,                   \* history of RequestReconcile / Forget calls
    mu,                        \* e.mu: the writer and the readers holding it
    goroutines,                \* position and locals of each caller
    writes,                    \* history of the writes to e's fields
    started                    \* number of calls begun by the callers

vars == <<pc, calls, cur, nRead, convertedMR, convertedComposition,
          composites, claims, ret, Plan, SkipGVKs, ErrorOnInvalidPatchSchema,
          queue, rateLimiterMap, enqueued, ehCalls,
          mu, goroutines, writes, started>>

---------------------------------------------------------------------------
(* Error messages and fixed values of the package.                         *)

errSourceHasNext == "failed to generate migration plan: Could not check next object from source"
errSourceNext == "failed to generate migration plan: Could not get next object from source"
errUnstructuredConvert == "failed to convert from unstructured object to v1.Composition"
errResourceMigrate == "failed to migrate resource"
errCompositePause == "failed to pause composite resource"
errCompositesEdit == "failed to edit composite resources"
errCompositesStart == "failed to start composite resources"
errCompositionMigrateFmt == "failed to migrate the composition: "
errConfigurationMigrateFmt == "failed to migrate the configuration: "
errComposedTemplateBase == "failed to migrate the base of a composed template"
errComposedTemplateMigrate == "failed to migrate the composed templates of the composition"
errClaimsEdit == "failed to edit claims"
errPlanGeneration == "failed to generate the migration plan"
errMissingGVK == "managed resource is missing its GVK. Resource converters must set GVKs on any managed resources they newly generate."
versionV010 == "0.1.0"

CategoryComposite == "composite"
CategoryClaim == "claim"
CategoryManaged == "managed"
CategoryComposition == "composition"
CategoryCrossplanePackage == "package"
CategoryUnknown == "unknown"

\* An error is the chain of its messages, outermost first; <<>> is nil.
\* errors.Wrap and errors.Wrapf return nil for a nil error.
Wrap(e, msg) == IF e = <<>> THEN <<>> ELSE <<msg>> \o e
Wrapf(e, fmt, arg) == IF e = <<>> THEN <<>> ELSE <<fmt \o arg>> \o e

---------------------------------------------------------------------------
(* Type identifiers.                                                       *)

GVK(g, v, k) == [Group |-> g, Version |-> v, Kind |-> k]
ZeroGVK == GVK("", "", "")
ConfigurationGroupVersionKind == GVK("meta.pkg.crossplane.io", "v1", "Configuration")
ConfigurationV1Alpha1GroupVersionKind == GVK("meta.pkg.crossplane.io", "v1alpha1", "Configuration")
CompositionGroupVersionKind == GVK("apiextensions.crossplane.io", "v1", "Composition")

\* schema.GroupVersion.String() as used for ObjectReference.APIVersion.
GroupVersionString(gvk) ==
    IF gvk.Group = "" THEN gvk.Version ELSE gvk.Group \o "/" \o gvk.Version

\* Resource types of the run.
VPCGVK == GVK("ec2.aws", "v1alpha1", "VPC")          \* converter: one replacement
BucketGVK == GVK("s3.aws", "v1alpha1", "Bucket")     \* converter: two replacements
QueueGVK == GVK("sqs.aws", "v1alpha1", "Queue")      \* converter: no replacement
TopicGVK == GVK("sns.aws", "v1alpha1", "Topic")      \* converter: forgets a GVK
RoleGVK == GVK("iam.aws", "v1alpha1", "Role")        \* converter: fails
UserGVK == GVK("iam.aws", "v1alpha1", "User")        \* managed type, no converter
ConfigMapGVK == GVK("", "v1", "ConfigMap")           \* not a managed type
XRGVK == GVK("example.org", "v1", "XNetwork")        \* composite type
ClaimGVK == GVK("example.org", "v1", "Network")      \* claim type
VPCTargetGVK == GVK("ec2.aws.upbound.io", "v1beta1", "VPC")
BucketTargetGVK == GVK("s3.aws.upbound.io", "v1beta1", "Bucket")
BucketPolicyGVK == GVK("", "", "BucketPolicy")       \* only the kind is set
TableGVK == GVK("dynamodb.aws", "v1alpha1", "Table") \* converter: three replacements
TableTargetGVK == GVK("dynamodb.aws.upbound.io", "v1beta1", "Table")
GlobalTableGVK == GVK("dynamodb.aws.upbound.io", "v1beta1", "GlobalTable")
TableReplicaGVK == GVK("dynamodb.aws.upbound.io", "v1beta1", "TableReplica")

---------------------------------------------------------------------------
(* Documents.                                                              *)

\* unstructured.Unstructured: type identifier, name, generateName, and the
\* parts of the body the generator reads: the composed templates and the
\* patch sets of a composition, and the edits made to a configuration.
Unstructured(gvk, name, generateName) ==
    [gvk |-> gvk, name |-> name, generateName |-> generateName,
     resources |-> <<>>, patchSets |-> <<>>, edits |-> <<>>]

\* resource.Managed, the decoded form handed to resource converters.
Managed(gvk, name, generateName) ==
    [gvk |-> gvk, name |-> name, generateName |-> generateName]

UnstructuredWithMetadata(object, category) ==
    [Object |-> object, Metadata |-> [Category |-> category]]

\* xpv1.ComposedTemplate: Name is "" when the pointer is nil or empty.
\* A patch is the patch set it refers to ("" for an inline patch) and
\* whether it conforms to the schema of the migration target.
ComposedTemplate(name, base, patches) ==
    [Name |-> name, Base |-> base, Patches |-> patches]

\* xpv1.PatchSet: a name and the revision of its patches.
PatchSet(name, rev) == [Name |-> name, rev |-> rev]

---------------------------------------------------------------------------
(* The converter registry of the run and the plugin converters in it.      *)

\* Managed resource types known to the registry's scheme.
scheme == {VPCGVK, BucketGVK, QueueGVK, TopicGVK, RoleGVK, UserGVK,
           VPCTargetGVK, BucketTargetGVK, TableGVK, TableTargetGVK,
           GlobalTableGVK, TableReplicaGVK}

\* registry.resourceConverters: exact type identifier -> converter.
\* A type outside the domain has no converter (the lookup yields nil).
resourceConverters ==
    [g \in {VPCGVK, BucketGVK, QueueGVK, TopicGVK, RoleGVK, TableGVK} |-> g.Kind]

\* conv.Resource(mg) of each registered plugin converter.
ConvResource(conv, mg) ==
    CASE conv = "VPC" ->
           [resources |-> <<Managed(VPCTargetGVK, mg.name, "")>>, err |-> <<>>]
      [] conv = "Bucket" ->
           [resources |-> <<Managed(BucketTargetGVK, mg.name, ""),
                            Managed(BucketPolicyGVK, "", "")>>,
            err |-> <<>>]
      [] conv = "Queue" -> [resources |-> <<>>, err |-> <<>>]
      [] conv = "Table" ->
           [resources |-> <<Managed(GlobalTableGVK, mg.name, ""),
                            Managed(TableTargetGVK, mg.name, ""),
                            Managed(TableReplicaGVK, mg.name, "")>>,
            err |-> <<>>]
      [] conv = "Topic" ->
           [resources |-> <<Managed(VPCTargetGVK, mg.name, ""),
                            Managed(ZeroGVK, "", "")>>,
            err |-> <<>>]
      [] OTHER -> [resources |-> <<>>, err |-> <<"converter failed">>]

\* toManagedResource(scheme, u): the decoded resource, whether the type is
\* a managed resource type, and the decoding error.
toManagedResource(c, u) ==
    IF u.gvk \in c
    THEN [mg |-> Managed(u.gvk, u.name, u.generateName), ok |-> TRUE, err |-> <<>>]
    ELSE [mg |-> Managed(ZeroGVK, "", ""), ok |-> FALSE,
          err |-> <<"failed to instantiate a new runtime.Object">>]

\* ToSanitizedUnstructured(mg): the unstructured form of a typed object
\* (a managed resource, a configuration or a composition).
ToSanitizedUnstructured(mg) ==
    [gvk |-> mg.gvk, name |-> mg.name, generateName |-> mg.generateName,
     resources |-> IF "resources" \in DOMAIN mg THEN mg.resources ELSE <<>>,
     patchSets |-> IF "patchSets" \in DOMAIN mg THEN mg.patchSets ELSE <<>>,
     edits |-> IF "edits" \in DOMAIN mg THEN mg.edits ELSE <<>>]

---------------------------------------------------------------------------
(* Resource conversion.                                                    *)

\* assertGVK looking at the first resource only.
assertGVK_FirstOnly(resources) ==
    IF Len(resources) > 0 /\ resources[1].gvk = ZeroGVK
    THEN <<errMissingGVK>>
    ELSE <<>>

assertGVK(resources) ==
    IF \E i \in 1..Len(resources) : resources[i].gvk = ZeroGVK
    THEN <<errMissingGVK>>
    ELSE <<>>

\* Sets generateName "<parent>-" on every resource that has neither a name
\* nor a generateName; the other resources are left as they are.
assertMetadataName(parentName, resources) ==
    [i \in 1..Len(resources) |->
        IF resources[i].name # "" \/ resources[i].generateName # ""
        THEN resources[i]
        ELSE [resources[i] EXCEPT !.generateName = parentName \o "-"]]

\* passThrough giving a nameless object a generateName outside a
\* composition, as the converted resources get one.
passThrough_Named(o, compositionContext) ==
    [targets |-> << IF compositionContext \/ o.Object.generateName # ""
                    THEN o
                    ELSE [o EXCEPT !.Object.generateName = o.Object.name \o "-"] >>,
     converted |-> FALSE, err |-> <<>>, trace |-> <<>>]

\* convertResource(o, compositionContext) when no converter is registered
\* for the type of o: o is handed back as it is.
passThrough(o, compositionContext) ==
    [targets |-> <<o>>, converted |-> FALSE, err |-> <<>>, trace |-> <<>>]

\* convertResource(o, compositionContext) from the decoding of o on, when
\* conv is the registered converter.  trace lists the collaborator calls
\* made: the decoding of o and the converter invocation.
convertRegistered(o, conv, compositionContext) ==
    LET dec == toManagedResource(scheme, o.Object)
        decCall == [op |-> "toManagedResource", u |-> o.Object]
    IN
    IF dec.err # <<>>
    THEN [targets |-> <<>>, converted |-> FALSE,
          err |-> Wrap(dec.err, errResourceMigrate), trace |-> <<decCall>>]
    ELSE
      LET res == ConvResource(conv, dec.mg)
          convCall == [op |-> "conv.Resource", mg |-> dec.mg]
      IN
      IF res.err # <<>>
      THEN [targets |-> <<>>, converted |-> FALSE,
            err |-> Wrap(res.err, errResourceMigrate),
            trace |-> <<decCall, convCall>>]
      ELSE IF assertGVK(res.resources) # <<>>
      THEN [targets |-> <<>>, converted |-> TRUE,
            err |-> Wrap(assertGVK(res.resources), errResourceMigrate),
            trace |-> <<decCall, convCall>>]
      ELSE
        LET resources == IF compositionContext THEN res.resources
                         ELSE assertMetadataName(dec.mg.name, res.resources)
        IN [targets |-> [i \in 1..Len(resources) |->
                            UnstructuredWithMetadata(
                                ToSanitizedUnstructured(resources[i]),
                                o.Metadata.Category)],
            converted |-> TRUE, err |-> <<>>,
            trace |-> <<decCall, convCall>>]

convertResource(o, compositionContext) ==
    LET gvk == o.Object.gvk IN
    IF gvk \notin DOMAIN resourceConverters
    THEN passThrough(o, compositionContext)
    ELSE convertRegistered(o, resourceConverters[gvk], compositionContext)

---------------------------------------------------------------------------
(* Configuration conversion.                                               *)

\* registry.configurationConverters, in registration order.  re is the
\* set of names the regular expression matches (reNil: no expression);
\* converter is the plugin ("" is nil).
configurationConverters ==
    << [reNil |-> FALSE, re |-> {"cfg-a", "cfg-b"}, converter |-> "deps"],
       [reNil |-> TRUE, re |-> {}, converter |-> "never"],
       [reNil |-> FALSE, re |-> {"cfg-a", "cfg-c"}, converter |-> ""],
       [reNil |-> FALSE, re |-> {"cfg-a"}, converter |-> "noop"],
       [reNil |-> FALSE, re |-> {"cfg-c"}, converter |-> "broken"] >>

\* toConfiguration(u): the typed configuration decoded from u.
toConfiguration(u) ==
    [gvk |-> u.gvk, name |-> u.name, generateName |-> u.generateName,
     edits |-> u.edits]

\* converter.ConfigurationV1 / converter.ConfigurationV1Alpha1 of each
\* plugin: the configuration after the in-place edit, and the error.
ConvConfiguration(converter, hook, conf) ==
    CASE converter = "deps" ->
           [conf |-> [conf EXCEPT !.edits = Append(@, "deps:" \o hook)],
            err |-> <<>>]
      [] converter = "noop" -> [conf |-> conf, err |-> <<>>]
      [] OTHER -> [conf |-> conf, err |-> <<"configuration converter failed">>]

\* The loop of convertConfiguration from converter i on; acc carries conf,
\* isConverted, err and the hook calls made so far.
RECURSIVE convertConfigurationFrom(_, _, _)
convertConfigurationFrom(o, i, acc) ==
    IF i > Len(configurationConverters) THEN acc
    ELSE
      LET confConv == configurationConverters[i] IN
      IF confConv.reNil \/ confConv.converter = ""
           \/ o.Object.name \notin confConv.re
      THEN convertConfigurationFrom(o, i + 1, acc)
      ELSE
        LET conf == toConfiguration(o.Object)
            hook == IF o.Object.gvk.Version = "v1alpha1"
                    THEN "ConfigurationV1Alpha1" ELSE "ConfigurationV1"
            r == ConvConfiguration(confConv.converter, hook, conf)
            call == [op |-> hook, converter |-> confConv.converter, conf |-> conf]
        IN
        IF r.err # <<>>
        THEN [acc EXCEPT !.isConverted = FALSE,
                         !.err = Wrapf(r.err, "failed to call converter on Configuration: ", conf.name),
                         !.trace = Append(@, call)]
        ELSE convertConfigurationFrom(o, i + 1,
                 [acc EXCEPT !.conf = r.conf, !.isConverted = TRUE,
                             !.trace = Append(@, call)])

convertConfiguration(o) ==
    LET acc == convertConfigurationFrom(o, 1,
                   [conf |-> [gvk |-> ZeroGVK, name |-> "", generateName |-> "",
                              edits |-> <<>>],
                    isConverted |-> FALSE, err |-> <<>>, trace |-> <<>>])
    IN [target |-> UnstructuredWithMetadata(ToSanitizedUnstructured(acc.conf),
                                            o.Metadata.Category),
        converted |-> acc.isConverted, err |-> acc.err, trace |-> acc.trace]

---------------------------------------------------------------------------
(* Composition conversion.                                                 *)

\* registry.patchSetConverters, in registration order (names as for the
\* configuration converters).
patchSetConverters ==
    << [reNil |-> FALSE, re |-> {"comp-a", "comp-b"}, converter |-> "bump"],
       [reNil |-> TRUE, re |-> {}, converter |-> "never"] >>

\* converter.PatchSets(psMap) of each plugin: the patch sets after the
\* in-place edit, and the error.
ConvPatchSets(converter, patchSets) ==
    IF converter = "bump"
    THEN [patchSets |-> [i \in 1..Len(patchSets) |->
                            IF patchSets[i].Name = "common"
                            THEN [patchSets[i] EXCEPT !.rev = @ + 1]
                            ELSE patchSets[i]],
          err |-> <<>>]
    ELSE [patchSets |-> patchSets, err |-> <<"patch set converter failed">>]

\* convertToComposition(u): the typed composition decoded from u.
convertToComposition(u) ==
    [gvk |-> u.gvk, name |-> u.name, generateName |-> u.generateName,
     resources |-> u.resources, patchSets |-> u.patchSets]

\* getConvertedPatchSetNames(new, old): names of the patch sets of new that
\* are not in old unchanged.
getConvertedPatchSetNames(new, old) ==
    LET changed == SelectSeq(new, LAMBDA ps :
                       \A j \in 1..Len(old) : old[j] # ps)
    IN [i \in 1..Len(changed) |-> changed[i].Name]

\* The loop of convertPatchSets from converter i on; acc carries the
\* object (its patch sets are rewritten in place), converted and err.
RECURSIVE convertPatchSetsFrom(_, _)
convertPatchSetsFrom(i, acc) ==
    IF i > Len(patchSetConverters) THEN acc
    ELSE
      LET psConv == patchSetConverters[i] IN
      IF psConv.reNil \/ psConv.converter = ""
           \/ acc.o.Object.name \notin psConv.re
      THEN convertPatchSetsFrom(i + 1, acc)
      ELSE
        LET c == convertToComposition(acc.o.Object)
            oldPatchSets == c.patchSets
            r == ConvPatchSets(psConv.converter, c.patchSets)
            call == [op |-> "conv.PatchSets", converter |-> psConv.converter,
                     name |-> c.name]
        IN
        IF r.err # <<>>
        THEN [acc EXCEPT !.converted = <<>>,
                         !.err = Wrapf(r.err, "failed to call PatchSet converter on Composition: ", c.name),
                         !.trace = Append(@, call)]
        ELSE convertPatchSetsFrom(i + 1,
                 [acc EXCEPT !.converted = @ \o getConvertedPatchSetNames(r.patchSets, oldPatchSets),
                             !.o.Object.patchSets = r.patchSets,
                             !.trace = Append(@, call)])

convertPatchSets(o) ==
    convertPatchSetsFrom(1, [o |-> o, converted |-> <<>>, err |-> <<>>,
                             trace |-> <<>>])

\* isGVKSkipped comparing the entries to the type as they are, an empty
\* component matching only an empty component.
isGVKSkipped_Exact(sourceGVK) ==
    \E i \in 1..Len(SkipGVKs) : SkipGVKs[i] = sourceGVK

isGVKSkipped(sourceGVK) ==
    \E i \in 1..Len(SkipGVKs) :
        LET gvk == SkipGVKs[i] IN
          /\ (gvk.Group = "" \/ gvk.Group = sourceGVK.Group)
          /\ (gvk.Version = "" \/ gvk.Version = sourceGVK.Version)
          /\ (gvk.Kind = "" \/ gvk.Kind = sourceGVK.Kind)

\* Fields of the schema of a resource type, for patch conformance.
SchemaFields(gvk) ==
    IF gvk = BucketPolicyGVK THEN {"spec.policy"}
    ELSE {"spec.region", "spec.policy"}

\* removeInvalidPatches: drops from target the patches that do not conform
\* to the source or target schema, or fails when the generator is
\* configured to error on them.
removeInvalidPatches(gvkSource, gvkTarget, patchSets, target, convertedPS) ==
    LET Conforms(p) == /\ p.fieldPath \in SchemaFields(gvkSource)
                       /\ p.fieldPath \in SchemaFields(gvkTarget)
    IN IF \A i \in 1..Len(target.Patches) : Conforms(target.Patches[i])
       THEN [target |-> target, err |-> <<>>]
       ELSE IF ErrorOnInvalidPatchSchema
       THEN [target |-> target, err |-> <<"patch does not conform to the schema">>]
       ELSE [target |-> [target EXCEPT !.Patches = SelectSeq(@, Conforms)],
             err |-> <<>>]

\* setDefaultsOnTargetTemplate giving the original name to the first
\* template produced, whatever its kind.
setDefaultsOnTargetTemplate_FirstKeeps(sourceName, sourceNameUsed, gvkSource, gvkTarget, target, patchSets, convertedPS, suffix) ==
    IF isGVKSkipped(gvkSource)
    THEN [target |-> target, sourceNameUsed |-> sourceNameUsed,
          err |-> <<>>, usedRand |-> FALSE]
    ELSE
      LET r == removeInvalidPatches(gvkSource, gvkTarget, patchSets, target,
                                    convertedPS)
      IN
      IF r.err # <<>>
      THEN [target |-> target, sourceNameUsed |-> sourceNameUsed,
            err |-> Wrap(r.err, "failed to set the defaults on the migration target composed template"),
            usedRand |-> FALSE]
      ELSE IF sourceNameUsed
      THEN IF sourceName # ""
           THEN [target |-> [r.target EXCEPT !.Name = sourceName \o "-" \o suffix],
                 sourceNameUsed |-> sourceNameUsed, err |-> <<>>,
                 usedRand |-> TRUE]
           ELSE [target |-> r.target, sourceNameUsed |-> sourceNameUsed,
                 err |-> <<>>, usedRand |-> FALSE]
      ELSE [target |-> r.target, sourceNameUsed |-> TRUE, err |-> <<>>,
            usedRand |-> FALSE]

\* setDefaultsOnTargetTemplate; suffix is the value rand.String(5) yields
\* if it is called.  usedRand tells whether it was.
setDefaultsOnTargetTemplate(sourceName, sourceNameUsed, gvkSource, gvkTarget, target, patchSets, convertedPS, suffix) ==
    IF isGVKSkipped(gvkSource)
    THEN [target |-> target, sourceNameUsed |-> sourceNameUsed,
          err |-> <<>>, usedRand |-> FALSE]
    ELSE
      LET r == removeInvalidPatches(gvkSource, gvkTarget, patchSets, target,
                                    convertedPS)
      IN
      IF r.err # <<>>
      THEN [target |-> target, sourceNameUsed |-> sourceNameUsed,
            err |-> Wrap(r.err, "failed to set the defaults on the migration target composed template"),
            usedRand |-> FALSE]
      ELSE IF sourceNameUsed \/ gvkSource.Kind # gvkTarget.Kind
      THEN IF sourceName # ""
           THEN [target |-> [r.target EXCEPT !.Name = sourceName \o "-" \o suffix],
                 sourceNameUsed |-> sourceNameUsed, err |-> <<>>,
                 usedRand |-> TRUE]
           ELSE [target |-> r.target, sourceNameUsed |-> sourceNameUsed,
                 err |-> <<>>, usedRand |-> FALSE]
      ELSE [target |-> r.target, sourceNameUsed |-> TRUE, err |-> <<>>,
            usedRand |-> FALSE]

\* registry.templateConverters: type identifier -> composed-template
\* converter.
templateConverters ==
    [g \in {BucketGVK, VPCTargetGVK, QueueGVK} |-> g.Kind]

\* conv.ComposedTemplate(cmp, cmps...) of each plugin: the error it returns
\* (the plugins of the run do not edit the templates).
ConvComposedTemplate(conv, cmp, cmps) ==
    IF conv = "Queue" THEN <<"composed template converter failed">> ELSE <<>>

\* The lookup made with the type of the first replacement, gvk when there
\* is none.
lookupTemplateConverter_ByTarget(gvk, converted) ==
    LET target == IF Len(converted) > 0 THEN converted[1].Object.gvk ELSE gvk
    IN IF target \in DOMAIN templateConverters
       THEN templateConverters[target] ELSE ""

\* conv := pg.registry.templateConverters[gvk], gvk being the type of the
\* base of the source template and converted its replacements: the
\* converter registered for gvk, "" (nil) when there is none.
lookupTemplateConverter(gvk, converted) ==
    IF gvk \in DOMAIN templateConverters THEN templateConverters[gvk] ELSE ""

\* FromRawExtension(cmp.Base) and its inverse, MarshalJSON into a
\* RawExtension: the document embedded in a composed template.
RawExtension(u) == [Raw |-> u]
FromRawExtension(base) == base.Raw

\* The inner loop of convertComposition: the defaulting of the templates
\* produced for cmp, from converted[j] on.  ctx holds comp.Spec.PatchSets,
\* convertedPS and rnd, the sequence of values the successive calls of
\* rand.String(5) yield; acc.k counts those calls.
RECURSIVE defaultTemplatesFrom(_, _, _, _, _, _)
defaultTemplatesFrom(cmp, gvk, converted, ctx, j, acc) ==
    IF j > Len(converted) \/ acc.err # <<>> THEN acc
    ELSE
      LET u == converted[j]
          c == [cmp EXCEPT !.Base = RawExtension(u.Object)]
          d == setDefaultsOnTargetTemplate(cmp.Name, acc.sourceNameUsed, gvk,
                   u.Object.gvk, c, ctx.patchSets, ctx.convertedPS,
                   ctx.rnd[(acc.k % Len(ctx.rnd)) + 1])
      IN
      IF d.err # <<>>
      THEN [acc EXCEPT !.err = Wrap(d.err, errComposedTemplateMigrate)]
      ELSE defaultTemplatesFrom(cmp, gvk, converted, ctx, j + 1,
               [acc EXCEPT !.cmps = Append(@, d.target),
                           !.sourceNameUsed = d.sourceNameUsed,
                           !.k = IF d.usedRand THEN @ + 1 ELSE @])

\* The outer loop of convertComposition: the composed templates of comp,
\* from comp.Spec.Resources[i] on.
RECURSIVE convertTemplatesFrom(_, _, _, _, _)
convertTemplatesFrom(o, comp, ctx, i, acc) ==
    IF i > Len(comp.resources) \/ acc.err # <<>> THEN acc
    ELSE
      LET cmp == comp.resources[i]
          u == FromRawExtension(cmp.Base)
          gvk == u.gvk
          r == convertResource(
                   UnstructuredWithMetadata(u, o.Metadata.Category), TRUE)
      IN
      IF r.err # <<>>
      THEN [acc EXCEPT !.err = Wrap(r.err, errComposedTemplateBase),
                       !.trace = @ \o r.trace]
      ELSE
        LET d == defaultTemplatesFrom(cmp, gvk, r.targets, ctx, 1,
                     [cmps |-> <<>>, sourceNameUsed |-> FALSE,
                      err |-> <<>>, k |-> acc.k])
            conv == lookupTemplateConverter(gvk, r.targets)
            hasConv == conv # ""
            call == [op |-> "conv.ComposedTemplate", gvk |-> gvk,
                     cmp |-> cmp, cmps |-> d.cmps]
            convErr == IF hasConv
                       THEN ConvComposedTemplate(conv, cmp, d.cmps)
                       ELSE <<>>
        IN
        IF d.err # <<>>
        THEN [acc EXCEPT !.err = d.err, !.trace = @ \o r.trace]
        ELSE IF convErr # <<>>
        THEN [acc EXCEPT !.err = Wrap(convErr, errComposedTemplateMigrate),
                         !.trace = @ \o r.trace \o <<call>>]
        ELSE convertTemplatesFrom(o, comp, ctx, i + 1,
                 [acc EXCEPT !.targetResources = @ \o d.cmps,
                             !.isConverted = @ \/ r.converted,
                             !.trace = @ \o r.trace
                                         \o (IF hasConv THEN <<call>> ELSE <<>>),
                             !.k = d.k])

\* convertComposition(o).  rnd is the sequence of values the successive
\* calls of rand.String(5) yield.  The result also carries o, whose patch
\* sets convertPatchSets rewrites in place.
convertComposition(o, rnd) ==
    LET ps == convertPatchSets(o)
        comp == convertToComposition(ps.o.Object)
        t == convertTemplatesFrom(o, comp,
                 [patchSets |-> comp.patchSets, convertedPS |-> ps.converted,
                  rnd |-> rnd],
                 1,
                 [targetResources |-> <<>>, isConverted |-> FALSE,
                  err |-> <<>>, trace |-> ps.trace, k |-> 0])
    IN
    IF ps.err # <<>>
    THEN [target |-> o, converted |-> FALSE,
          err |-> Wrap(ps.err, "failed to convert patch sets"),
          trace |-> ps.trace, o |-> ps.o]
    ELSE IF t.err # <<>>
    THEN [target |-> o, converted |-> FALSE, err |-> t.err,
          trace |-> t.trace, o |-> ps.o]
    ELSE [target |-> UnstructuredWithMetadata(
                         ToSanitizedUnstructured(
                             [comp EXCEPT !.resources = t.targetResources]),
                         o.Metadata.Category),
          converted |-> t.isConverted, err |-> <<>>, trace |-> t.trace,
          o |-> ps.o]

---------------------------------------------------------------------------
(* The objects the source can hand out.                                    *)

Resource(gvk, name, category) ==
    UnstructuredWithMetadata(Unstructured(gvk, name, ""), category)

Configuration(gvk, name) ==
    UnstructuredWithMetadata(Unstructured(gvk, name, ""), CategoryCrossplanePackage)

Composition(name, resources, patchSets) ==
    UnstructuredWithMetadata(
        [Unstructured(CompositionGroupVersionKind, name, "")
            EXCEPT !.resources = resources, !.patchSets = patchSets],
        CategoryComposition)

Template(name, gvk, patches) ==
    ComposedTemplate(name, RawExtension(Unstructured(gvk, "", "")), patches)

Objects ==
    { Configuration(ConfigurationGroupVersionKind, "cfg-a"),
      Configuration(ConfigurationV1Alpha1GroupVersionKind, "cfg-b"),
      Configuration(ConfigurationGroupVersionKind, "cfg-c"),
      Configuration(ConfigurationV1Alpha1GroupVersionKind, "cfg-d"),
      Composition("comp-a",
                  << Template("vpc", VPCGVK, <<>>),
                     Template("bucket", BucketGVK, <<[fieldPath |-> "spec.region"]>>) >>,
                  << PatchSet("common", 0) >>),
      Composition("comp-b", << Template("user", UserGVK, <<>>) >>,
                  << PatchSet("common", 0) >>),
      Composition("comp-c", << Template("topic", TopicGVK, <<>>) >>, <<>>),
      Composition("comp-d", << Template("", BucketGVK, <<>>) >>, <<>>),
      Composition("comp-e", << Template("table", TableGVK, <<>>) >>, <<>>),
      Composition("comp-f", << Template("queue", QueueGVK, <<>>) >>, <<>>),
      Resource(XRGVK, "xr-a", CategoryComposite),
      Resource(BucketGVK, "xr-b", CategoryComposite),
      Resource(ClaimGVK, "claim-a", CategoryClaim),
      Resource(VPCGVK, "claim-b", CategoryClaim),
      Resource(VPCGVK, "vpc-a", CategoryManaged),
      Resource(BucketGVK, "bucket-a", CategoryManaged),
      Resource(QueueGVK, "queue-a", CategoryManaged),
      Resource(TopicGVK, "topic-a", CategoryManaged),
      Resource(RoleGVK, "role-a", CategoryManaged),
      Resource(UserGVK, "user-a", CategoryManaged),
      Resource(ConfigMapGVK, "cm-a", CategoryUnknown) }

\* Values rand.String(5) can yield.
RandStrings == {"abcde", "vwxyz"}

\* Skip lists the generator can be configured with.
SkipLists == { <<>>, << GVK("", "", "Bucket") >> }

---------------------------------------------------------------------------
(* GeneratePlan and convert.                                               *)

\* Error returned by a failing collaborator.
SourceError == <<"source failed">>
StepError == <<"step failed">>

\* A map with key k set to v.
Put(m, k, v) == [x \in DOMAIN m \cup {k} |-> IF x = k THEN v ELSE m[x]]

ObjectReference(gvk, name) ==
    [Kind |-> gvk.Kind, Name |-> name, APIVersion |-> GroupVersionString(gvk)]

\* MigratedName with the suffix left out.
MigratedName_Same(name) == name

\* fmt.Sprintf("%s-migrated", name)
MigratedName(name) == name \o "-migrated"

\* History entries of the calls a conversion made, for object number n.
Tag(trace, n) == [i \in 1..Len(trace) |-> [n |-> n] @@ trace[i]]

\* A call of a step emitter or of another collaborator of convert.
Call(op, n, ok) == [op |-> op, n |-> n, ok |-> ok]

\* The queues an event can carry; NoQueue is the nil e.queue.
Queues == {"q1", "q2"}
NoQueue == ""

\* Number of goroutines calling the handler at the same time.
MaxGoroutines == 2

Goroutines == 1..MaxGoroutines
NoGoroutine == 0

\* A goroutine that is in no call of the handler.
Idle ==
    [pc |-> "idle", rateLimiterName |-> "", name |-> "", failureLimit |-> <<>>,
     limitingInterface |-> NoQueue, rateLimiter |-> <<>>, ret |-> FALSE]

\* NewEventHandler: no queue, an empty rate-limiter map, a free mutex.
NewEventHandler ==
    /\ queue = NoQueue
    /\ rateLimiterMap = <<>>
    /\ enqueued = [q \in Queues |-> {}]
    /\ ehCalls = <<>>
    /\ mu = [writer |-> NoGoroutine, readers |-> {}]
    /\ goroutines = [g \in Goroutines |-> Idle]
    /\ writes = <<>>
    /\ started = 0

locking == <<mu, goroutines, writes, started>>
eventHandler == <<queue, rateLimiterMap, enqueued, ehCalls, locking>>

Init ==
    /\ pc = "start"
    /\ calls = <<>>
    /\ cur = Resource(ZeroGVK, "", CategoryUnknown)
    /\ nRead = 0
    /\ convertedMR = <<>>
    /\ convertedComposition = <<>>
    /\ composites = <<>>
    /\ claims = <<>>
    /\ ret = <<>>
    /\ Plan = [Version |-> ""]
    /\ SkipGVKs \in SkipLists
    /\ ErrorOnInvalidPatchSchema \in BOOLEAN
    /\ NewEventHandler

pgOptions == <<SkipGVKs, ErrorOnInvalidPatchSchema>>
accumulators == <<convertedMR, convertedComposition, composites, claims>>

\* GeneratePlan up to the call of convert, and the first lines of convert.
GeneratePlan ==
    /\ pc = "start"
    /\ Plan' = [Plan EXCEPT !.Version = versionV010]
    /\ convertedMR' = <<>>
    /\ convertedComposition' = <<>>
    /\ composites' = <<>>
    /\ claims' = <<>>
    /\ pc' = "hasNext"
    /\ UNCHANGED <<calls, cur, nRead, ret, pgOptions, eventHandler>>

\* Return with the commit called at the end of the success path instead
\* of being deferred.
Return_CommitOnSuccessOnly(e) ==
    /\ ret' = Wrap(e, errPlanGeneration)
    /\ pc' = IF e = <<>> THEN "deferred" ELSE "done"

\* convert returns e: GeneratePlan wraps it and runs its deferred call next.
Return(e) ==
    /\ ret' = Wrap(e, errPlanGeneration)
    /\ pc' = "deferred"

\* SourceHasNext leaving the loop on an error as on exhaustion.
SourceHasNext_BreakOnError ==
    /\ pc = "hasNext"
    /\ \/ /\ nRead < MaxObjects
          /\ calls' = Append(calls, [hasNext |-> TRUE] @@ Call("HasNext", nRead, TRUE))
          /\ pc' = "next"
       \/ /\ calls' = Append(calls, [hasNext |-> FALSE] @@ Call("HasNext", nRead, TRUE))
          /\ pc' = "editComposites"
       \/ /\ calls' = Append(calls, Call("HasNext", nRead, FALSE))
          /\ pc' = "editComposites"
    /\ UNCHANGED <<cur, nRead, accumulators, ret, Plan, pgOptions, eventHandler>>

\* pg.source.HasNext() at the head of the loop.
SourceHasNext ==
    /\ pc = "hasNext"
    /\ \/ /\ nRead < MaxObjects
          /\ calls' = Append(calls, [hasNext |-> TRUE] @@ Call("HasNext", nRead, TRUE))
          /\ pc' = "next"
          /\ UNCHANGED ret
       \/ /\ calls' = Append(calls, [hasNext |-> FALSE] @@ Call("HasNext", nRead, TRUE))
          /\ pc' = "editComposites"
          /\ UNCHANGED ret
       \/ /\ calls' = Append(calls, Call("HasNext", nRead, FALSE))
          /\ Return(Wrap(SourceError, errSourceHasNext))
    /\ UNCHANGED <<cur, nRead, accumulators, Plan, pgOptions, eventHandler>>

\* pg.source.Next()
SourceNext ==
    /\ pc = "next"
    /\ \/ \E obj \in Objects :
            /\ calls' = Append(calls, [o |-> obj] @@ Call("Next", nRead + 1, TRUE))
            /\ cur' = obj
            /\ nRead' = nRead + 1
            /\ pc' = "dispatch"
            /\ UNCHANGED ret
       \/ /\ calls' = Append(calls, Call("Next", nRead + 1, FALSE))
          /\ Return(Wrap(SourceError, errSourceNext))
          /\ UNCHANGED <<cur, nRead>>
    /\ UNCHANGED <<accumulators, Plan, pgOptions, eventHandler>>

\* TargetSteps creating all the replacements before starting them.
TargetSteps_NewThenStart(targets) ==
    [i \in 1..(2 * Len(targets)) |->
        IF i <= Len(targets)
        THEN [op |-> "stepNewManagedResource", o |-> targets[i]]
        ELSE [op |-> "stepStartManagedResource", o |-> targets[i - Len(targets)]]]

\* The step requests for the replacements of a converted resource, in the
\* order the loop over targets makes them.
TargetSteps(targets) ==
    [i \in 1..(2 * Len(targets)) |->
        [op |-> IF i % 2 = 1 THEN "stepNewManagedResource"
                ELSE "stepStartManagedResource",
         o |-> targets[(i + 1) \div 2]]]

\* The requests actually made when request number f fails (f = 0: none
\* fails): the loop returns at the first failure.
Requested(reqs, f, n) ==
    [i \in 1..(IF f = 0 THEN Len(reqs) ELSE f) |->
        [n |-> n, ok |-> (i # f)] @@ reqs[i]]

IsConfiguration(gvk) ==
    gvk \in {ConfigurationGroupVersionKind, ConfigurationV1Alpha1GroupVersionKind}

\* DispatchConfiguration requesting the step only when the converters
\* changed the document.
DispatchConfiguration_OnlyIfEdited ==
    /\ pc = "dispatch"
    /\ IsConfiguration(cur.Object.gvk)
    /\ \E r \in {convertConfiguration(cur)} :
       IF r.err # <<>>
       THEN /\ calls' = calls \o Tag(r.trace, nRead)
            /\ Return(Wrapf(r.err, errConfigurationMigrateFmt, cur.Object.name))
       ELSE IF r.converted /\ r.target.Object.edits # cur.Object.edits
       THEN \E ok \in BOOLEAN :
              /\ calls' = calls \o Tag(r.trace, nRead)
                            \o << [o |-> cur, target |-> r.target]
                                    @@ Call("stepEditConfiguration", nRead, ok) >>
              /\ IF ok THEN pc' = "addSteps" /\ UNCHANGED ret
                 ELSE Return(StepError)
       ELSE /\ calls' = calls \o Tag(r.trace, nRead)
            /\ pc' = "addSteps"
            /\ UNCHANGED ret
    /\ UNCHANGED <<cur, nRead, accumulators, Plan, pgOptions, eventHandler>>

\* case xpmetav1.ConfigurationGroupVersionKind,
\*      xpmetav1alpha1.ConfigurationGroupVersionKind
DispatchConfiguration ==
    /\ pc = "dispatch"
    /\ IsConfiguration(cur.Object.gvk)
    /\ \E r \in {convertConfiguration(cur)} :
       IF r.err # <<>>
       THEN /\ calls' = calls \o Tag(r.trace, nRead)
            /\ Return(Wrapf(r.err, errConfigurationMigrateFmt, cur.Object.name))
       ELSE IF r.converted
       THEN \E ok \in BOOLEAN :
              /\ calls' = calls \o Tag(r.trace, nRead)
                            \o << [o |-> cur, target |-> r.target]
                                    @@ Call("stepEditConfiguration", nRead, ok) >>
              /\ IF ok THEN pc' = "addSteps" /\ UNCHANGED ret
                 ELSE Return(StepError)
       ELSE /\ calls' = calls \o Tag(r.trace, nRead)
            /\ pc' = "addSteps"
            /\ UNCHANGED ret
    /\ UNCHANGED <<cur, nRead, accumulators, Plan, pgOptions, eventHandler>>

\* case xpv1.CompositionGroupVersionKind
DispatchComposition ==
    /\ pc = "dispatch"
    /\ cur.Object.gvk = CompositionGroupVersionKind
    /\ \E rnd \in [1..2 -> RandStrings] :
         \E r \in {convertComposition(cur, rnd)} :
         /\ cur' = r.o
         /\ IF r.err # <<>>
            THEN /\ calls' = calls \o Tag(r.trace, nRead)
                 /\ Return(Wrapf(r.err, errCompositionMigrateFmt, r.o.Object.name))
                 /\ UNCHANGED convertedComposition
            ELSE IF r.converted
            THEN LET migratedName == MigratedName(r.o.Object.name)
                     target == [r.target EXCEPT !.Object.name = migratedName]
                 IN
                 /\ convertedComposition' =
                        Put(convertedComposition, r.o.Object.name, migratedName)
                 /\ \E ok \in BOOLEAN :
                      /\ calls' = calls \o Tag(r.trace, nRead)
                                    \o << [o |-> target]
                                            @@ Call("stepNewComposition", nRead, ok) >>
                      /\ IF ok THEN pc' = "addSteps" /\ UNCHANGED ret
                         ELSE Return(Wrapf(StepError, errCompositionMigrateFmt,
                                           r.o.Object.name))
            ELSE /\ calls' = calls \o Tag(r.trace, nRead)
                 /\ pc' = "addSteps"
                 /\ UNCHANGED <<ret, convertedComposition>>
    /\ UNCHANGED <<nRead, convertedMR, composites, claims, Plan, pgOptions, eventHandler>>

IsDefault(gvk) ==
    ~IsConfiguration(gvk) /\ gvk # CompositionGroupVersionKind

\* DispatchComposite putting the composite at the head of the list.
DispatchComposite_Prepend ==
    /\ pc = "dispatch"
    /\ IsDefault(cur.Object.gvk)
    /\ cur.Metadata.Category = CategoryComposite
    /\ \E ok \in BOOLEAN :
         /\ calls' = Append(calls, [o |-> cur] @@ Call("stepPauseComposite", nRead, ok))
         /\ IF ok
            THEN /\ composites' = <<cur>> \o composites
                 /\ pc' = "hasNext"
                 /\ UNCHANGED ret
            ELSE /\ Return(Wrap(StepError, errCompositePause))
                 /\ UNCHANGED composites
    /\ UNCHANGED <<cur, nRead, convertedMR, convertedComposition, claims, Plan,
                   pgOptions, eventHandler>>

\* default: o.Metadata.Category == CategoryComposite
DispatchComposite ==
    /\ pc = "dispatch"
    /\ IsDefault(cur.Object.gvk)
    /\ cur.Metadata.Category = CategoryComposite
    /\ \E ok \in BOOLEAN :
         /\ calls' = Append(calls, [o |-> cur] @@ Call("stepPauseComposite", nRead, ok))
         /\ IF ok
            THEN /\ composites' = Append(composites, cur)
                 /\ pc' = "hasNext"
                 /\ UNCHANGED ret
            ELSE /\ Return(Wrap(StepError, errCompositePause))
                 /\ UNCHANGED composites
    /\ UNCHANGED <<cur, nRead, convertedMR, convertedComposition, claims, Plan,
                   pgOptions, eventHandler>>

\* DispatchClaim without the continue: the loop body runs to its end.
DispatchClaim_FallThrough ==
    /\ pc = "dispatch"
    /\ IsDefault(cur.Object.gvk)
    /\ cur.Metadata.Category # CategoryComposite
    /\ cur.Metadata.Category = CategoryClaim
    /\ claims' = Append(claims, cur)
    /\ pc' = "addSteps"
    /\ UNCHANGED <<calls, cur, nRead, convertedMR, convertedComposition,
                   composites, ret, Plan, pgOptions, eventHandler>>

\* default: o.Metadata.Category == CategoryClaim
DispatchClaim ==
    /\ pc = "dispatch"
    /\ IsDefault(cur.Object.gvk)
    /\ cur.Metadata.Category # CategoryComposite
    /\ cur.Metadata.Category = CategoryClaim
    /\ claims' = Append(claims, cur)
    /\ pc' = "hasNext"
    /\ UNCHANGED <<calls, cur, nRead, convertedMR, convertedComposition,
                   composites, ret, Plan, pgOptions, eventHandler>>

\* UnconvertedSteps starting the resource whatever its type.
UnconvertedSteps_AlwaysStart(o, managed) ==
    << [op |-> "stepStartManagedResource", o |-> o] >>

\* The step requested for a resource that was not converted: it is
\* started if it is a managed resource.
UnconvertedSteps(o, managed) ==
    IF managed THEN << [op |-> "stepStartManagedResource", o |-> o] >> ELSE <<>>

\* default: a plain resource
DispatchResource ==
    /\ pc = "dispatch"
    /\ IsDefault(cur.Object.gvk)
    /\ cur.Metadata.Category \notin {CategoryComposite, CategoryClaim}
    /\ \E r \in {convertResource(cur, FALSE)} :
       IF r.err # <<>>
       THEN /\ calls' = calls \o Tag(r.trace, nRead)
            /\ Return(Wrap(r.err, errResourceMigrate))
            /\ UNCHANGED convertedMR
       ELSE
         LET m == toManagedResource(scheme, cur.Object)
             decCall == [op |-> "toManagedResource", n |-> nRead,
                         u |-> cur.Object]
             steps == IF r.converted THEN TargetSteps(r.targets)
                      ELSE UnconvertedSteps(cur, m.ok)
         IN
         /\ convertedMR' =
              IF r.converted
              THEN Put(convertedMR,
                       ObjectReference(cur.Object.gvk, cur.Object.name), r.targets)
              ELSE convertedMR
         /\ \E f \in 0..Len(steps) :
              /\ calls' = calls \o Tag(r.trace, nRead)
                            \o (IF r.converted THEN <<>> ELSE <<decCall>>)
                            \o Requested(steps, f, nRead)
              /\ IF f = 0 THEN pc' = "addSteps" /\ UNCHANGED ret
                 ELSE Return(Wrap(StepError, errResourceMigrate))
    /\ UNCHANGED <<cur, nRead, convertedComposition, composites, claims, Plan,
                   pgOptions, eventHandler>>

\* pg.addStepsForManagedResource(&o) at the end of the loop body.
AddStepsForManagedResource ==
    /\ pc = "addSteps"
    /\ \E ok \in BOOLEAN :
         /\ calls' = Append(calls, [o |-> cur]
                                     @@ Call("addStepsForManagedResource", nRead, ok))
         /\ IF ok THEN pc' = "hasNext" /\ UNCHANGED ret
            ELSE Return(StepError)
    /\ UNCHANGED <<cur, nRead, accumulators, Plan, pgOptions, eventHandler>>

\* pg.stepEditComposites(composites, convertedMR, convertedComposition)
StepEditComposites ==
    /\ pc = "editComposites"
    /\ \E ok \in BOOLEAN :
         /\ calls' = Append(calls,
                [composites |-> composites, convertedMR |-> convertedMR,
                 convertedComposition |-> convertedComposition]
                  @@ Call("stepEditComposites", nRead, ok))
         /\ IF ok THEN pc' = "startComposites" /\ UNCHANGED ret
            ELSE Return(Wrap(StepError, errCompositesEdit))
    /\ UNCHANGED <<cur, nRead, accumulators, Plan, pgOptions, eventHandler>>

\* StepStartComposites going on to the claims when it fails.
StepStartComposites_IgnoreError ==
    /\ pc = "startComposites"
    /\ \E ok \in BOOLEAN :
         /\ calls' = Append(calls, [composites |-> composites]
                                     @@ Call("stepStartComposites", nRead, ok))
         /\ pc' = "editClaims"
    /\ UNCHANGED <<cur, nRead, accumulators, ret, Plan, pgOptions, eventHandler>>

\* pg.stepStartComposites(composites)
StepStartComposites ==
    /\ pc = "startComposites"
    /\ \E ok \in BOOLEAN :
         /\ calls' = Append(calls, [composites |-> composites]
                                     @@ Call("stepStartComposites", nRead, ok))
         /\ IF ok THEN pc' = "editClaims" /\ UNCHANGED ret
            ELSE Return(Wrap(StepError, errCompositesStart))
    /\ UNCHANGED <<cur, nRead, accumulators, Plan, pgOptions, eventHandler>>

\* spec.compositionRef.name of a claim: the composition it references
\* by name ("" when it references none).
compositionRef(u) ==
    CASE u.name = "claim-a" -> "comp-a"
      [] u.name = "claim-b" -> "comp-e"
      [] OTHER -> ""

\* The edits stepEditClaims(claims, convertedComposition) puts in the
\* plan: each claim that references a converted composition, with the
\* reference rewritten to the new name.
stepEditClaims(cs, converted) ==
    LET ks == SelectSeq([j \in 1..Len(cs) |-> j],
                        LAMBDA j : compositionRef(cs[j].Object) \in DOMAIN converted)
    IN [j \in 1..Len(ks) |->
          [name |-> cs[ks[j]].Object.name,
           compositionRef |-> converted[compositionRef(cs[ks[j]].Object)]]]

\* StepEditClaims handing over the map as it was when the generator
\* started: empty.
StepEditClaims_NoMap ==
    /\ pc = "editClaims"
    /\ \E ok \in BOOLEAN :
         /\ calls' = Append(calls,
                [claims |-> claims, convertedComposition |-> <<>>]
                  @@ Call("stepEditClaims", nRead, ok))
         /\ IF ok THEN Return(<<>>)
            ELSE Return(Wrap(StepError, errClaimsEdit))
    /\ UNCHANGED <<cur, nRead, accumulators, Plan, pgOptions, eventHandler>>

\* pg.stepEditClaims(claims, convertedComposition), then return nil.
StepEditClaims ==
    /\ pc = "editClaims"
    /\ \E ok \in BOOLEAN :
         /\ calls' = Append(calls,
                [claims |-> claims, convertedComposition |-> convertedComposition]
                  @@ Call("stepEditClaims", nRead, ok))
         /\ IF ok THEN Return(<<>>)
            ELSE Return(Wrap(StepError, errClaimsEdit))
    /\ UNCHANGED <<cur, nRead, accumulators, Plan, pgOptions, eventHandler>>

\* defer pg.commitSteps(): runs when GeneratePlan returns.
CommitSteps ==
    /\ pc = "deferred"
    /\ calls' = Append(calls, Call("commitSteps", nRead, TRUE))
    /\ pc' = "done"
    /\ UNCHANGED <<cur, nRead, accumulators, ret, Plan, pgOptions, eventHandler>>

Next ==
    \/ GeneratePlan
    \/ SourceHasNext
    \/ SourceNext
    \/ DispatchConfiguration
    \/ DispatchComposition
    \/ DispatchComposite
    \/ DispatchClaim
    \/ DispatchResource
    \/ AddStepsForManagedResource
    \/ StepEditComposites
    \/ StepStartComposites
    \/ StepEditClaims
    \/ CommitSteps

Spec == Init /\ [][Next]_vars

---------------------------------------------------------------------------
(* Reading the history.                                                    *)

SourceOps == {"HasNext", "Next"}
BatchOps == {"stepEditComposites", "stepStartComposites", "stepEditClaims"}
StepOps == {"stepEditConfiguration", "stepNewComposition", "stepPauseComposite",
            "stepNewManagedResource", "stepStartManagedResource"}

\* Positions of the history holding a call of op.
At(op) == {i \in 1..Len(calls) : calls[i].op = op}

\* Positions of the history holding a call of op made for object number k.
AtFor(op, k) == {i \in 1..Len(calls) : calls[i].n = k /\ calls[i].op = op}

\* convert has returned: GeneratePlan is at its deferred call or past it.
Returned == pc \in {"deferred", "done"}

\* The source reported exhaustion at position i.
Exhausted(i) ==
    calls[i].op = "HasNext" /\ calls[i].ok /\ ~calls[i].hasNext

---------------------------------------------------------------------------
(* C1: commitSteps runs exactly once in every execution of GeneratePlan,   *)
(* after convert has returned, on the success path and on every error      *)
(* path: no commit is made before convert has returned and GeneratePlan    *)
(* never finishes without exactly one commit, which is its last call.      *)
C1_CommitOnceAfterConvert ==
    /\ Cardinality(At("commitSteps")) = (IF pc = "done" THEN 1 ELSE 0)
    /\ pc = "done" => calls[Len(calls)].op = "commitSteps"
    /\ ret # <<>> => Returned
    /\ pc = "deferred" => ENABLED CommitSteps

\* GeneratePlan finished with a batch-pass error and committed.
C1_Witness ==
    /\ pc = "done"
    /\ ret = <<errPlanGeneration, errCompositesEdit>> \o StepError
    /\ At("commitSteps") = {Len(calls)}

(* C2: an error from HasNext or Next makes generation fail at once with    *)
(* the wrapped source error: after it no HasNext, Next, step or batch pass *)
(* is called (only the deferred commit follows).                           *)
C2_SourceErrorAborts ==
    \A i \in At("HasNext") \cup At("Next") :
        ~calls[i].ok =>
            /\ Returned
            /\ ret = <<errPlanGeneration,
                       IF calls[i].op = "HasNext" THEN errSourceHasNext
                       ELSE errSourceNext>> \o SourceError
            /\ \A j \in (i + 1)..Len(calls) : calls[j].op = "commitSteps"

\* HasNext failed after one object had been processed.
C2_Witness ==
    /\ pc = "done"
    /\ \E i \in At("HasNext") : ~calls[i].ok /\ calls[i].n = 1
    /\ At("addStepsForManagedResource") # {}

(* C3: the batch passes run only after the source reported exhaustion,     *)
(* each at most once, in the order edit composites, start composites, edit *)
(* claims; a pass runs only if the earlier ones succeeded, and a failing   *)
(* pass makes GeneratePlan return the error of its stage.                  *)
C3_BatchPasses ==
    /\ \A op \in BatchOps : Cardinality(At(op)) <= 1
    /\ \A i \in At("stepEditComposites") : i > 1 /\ Exhausted(i - 1)
    /\ \A i \in At("stepStartComposites") :
          i > 1 /\ calls[i - 1].op = "stepEditComposites" /\ calls[i - 1].ok
    /\ \A i \in At("stepEditClaims") :
          i > 1 /\ calls[i - 1].op = "stepStartComposites" /\ calls[i - 1].ok
    /\ \A op \in BatchOps : \A i \in At(op) :
          ~calls[i].ok =>
             /\ Returned
             /\ ret = <<errPlanGeneration,
                        CASE op = "stepEditComposites" -> errCompositesEdit
                          [] op = "stepStartComposites" -> errCompositesStart
                          [] OTHER -> errClaimsEdit>> \o StepError
             /\ \A j \in (i + 1)..Len(calls) : calls[j].op = "commitSteps"

\* The second pass failed, so the third never ran.
C3_Witness ==
    /\ pc = "done"
    /\ \E i \in At("stepStartComposites") : ~calls[i].ok
    /\ At("stepEditClaims") = {}
    /\ nRead = MaxObjects

\* Object number k has left the dispatch of the main pass.
Dispatched(k) == k < nRead \/ (k = nRead /\ pc # "dispatch")

\* The loop body ran to its end for object number k: the loop came back
\* to HasNext with k objects read.
Processed(k) == AtFor("HasNext", k) # {}

\* Object number k as the source handed it out.
ObjectRead(k) == calls[CHOOSE i \in AtFor("Next", k) : calls[i].ok].o

\* The objects read so far, in source order.
SourceObjects == [k \in 1..nRead |-> ObjectRead(k)]

\* The objects number k of objs with Keep(k), in source order.
ReadWhere(objs, Keep(_)) ==
    LET ks == SelectSeq([k \in 1..Len(objs) |-> k], Keep)
    IN [j \in 1..Len(ks) |-> objs[ks[j]]]

IsCompositeObject(obj) ==
    IsDefault(obj.Object.gvk) /\ obj.Metadata.Category = CategoryComposite

IsClaimObject(obj) ==
    /\ IsDefault(obj.Object.gvk)
    /\ obj.Metadata.Category # CategoryComposite
    /\ obj.Metadata.Category = CategoryClaim

IsPlainObject(obj) ==
    /\ IsDefault(obj.Object.gvk)
    /\ obj.Metadata.Category \notin {CategoryComposite, CategoryClaim}

\* What the claims of the default branch have in common, objs being the
\* objects read so far.
DefaultBranchCalls(objs) ==
    /\ \A k \in 1..nRead : Dispatched(k) =>
          /\ IsCompositeObject(objs[k]) =>
               /\ Cardinality(AtFor("stepPauseComposite", k)) = 1
               /\ \A i \in AtFor("stepPauseComposite", k) : calls[i].o = objs[k]
               /\ AtFor("conv.Resource", k) = {}
          /\ IsClaimObject(objs[k]) =>
               /\ \A i \in 1..Len(calls) :
                     calls[i].n = k => calls[i].op \notin StepOps \cup {"conv.Resource"}
    /\ claims = ReadWhere(objs, LAMBDA k : Dispatched(k) /\ IsClaimObject(objs[k]))
    /\ \A i \in At("stepEditComposites") \cup At("stepStartComposites") :
          /\ calls[i].composites = composites
          /\ \A j \in 1..Len(composites) :
                \E h \in 1..(i - 1) : /\ calls[h].op = "stepPauseComposite"
                                      /\ calls[h].o = composites[j]

(* C4 as stated: every composite of the default branch gets exactly one    *)
(* PauseComposite request and is appended once to the deferred composites, *)
(* every claim is appended once to the deferred claims with no step        *)
(* requested, so the deferred lists are the composites and the claims      *)
(* read, in source order.                                                  *)
C4_Original ==
    \A objs \in {SourceObjects} :
       /\ DefaultBranchCalls(objs)
       /\ composites =
            ReadWhere(objs, LAMBDA k : Dispatched(k) /\ IsCompositeObject(objs[k]))

(* C4, amended: a composite is appended to the deferred composites only    *)
(* when its PauseComposite request succeeded (a failing request aborts     *)
(* generation before the append); the rest of the claim holds: one         *)
(* PauseComposite request per composite, no converter call for it, claims  *)
(* deferred without a step, the batch passes get composites whose pause    *)
(* was requested earlier, and the deferred lists keep source order.        *)
C4_DeferredInOrder ==
    \A objs \in {SourceObjects} :
       /\ DefaultBranchCalls(objs)
       /\ composites =
            ReadWhere(objs, LAMBDA k :
                /\ Dispatched(k)
                /\ IsCompositeObject(objs[k])
                /\ \A i \in AtFor("stepPauseComposite", k) : calls[i].ok)
       /\ \A i \in At("stepPauseComposite") :
             ~calls[i].ok =>
                /\ Returned
                /\ ret = <<errPlanGeneration, errCompositePause>> \o StepError

\* Two composites and no claim were deferred and handed to both passes.
C4_Witness ==
    /\ pc = "done"
    /\ Len(composites) = 2 /\ composites[1] # composites[2]
    /\ At("stepStartComposites") # {}

(* C5 as stated: for every object processed without error in the main     *)
(* pass addStepsForManagedResource is called exactly once, whatever branch *)
(* handled it.                                                             *)
C5_Original ==
    \A k \in 1..nRead : Processed(k) =>
        Cardinality(AtFor("addStepsForManagedResource", k)) = 1

(* C5, amended: for every object processed without error in the main pass  *)
(* addStepsForManagedResource is called exactly once, after the steps of   *)
(* its branch, when the Configuration, the Composition or the plain        *)
(* resource branch handled it, and not at all when it is a Composite or a  *)
(* Claim of the default branch: these continue the loop before the call.   *)
C5_AddStepsPerBranch ==
    \A objs \in {SourceObjects} : \A k \in 1..nRead : Processed(k) =>
        \A src \in {objs[k]} : \A added \in {AtFor("addStepsForManagedResource", k)} :
           IF IsCompositeObject(src) \/ IsClaimObject(src)
           THEN added = {}
           ELSE /\ Cardinality(added) = 1
                /\ \A i \in added :
                      /\ calls[i].ok
                      /\ calls[i].o.Object.gvk = src.Object.gvk
                      /\ calls[i].o.Object.name = src.Object.name
                      /\ \A j \in 1..Len(calls) :
                            (calls[j].n = k /\ calls[j].op \in StepOps) => j < i

\* A claim and a converted resource were both processed without error.
C5_Witness ==
    /\ \E k \in 1..nRead : Processed(k) /\ IsClaimObject(ObjectRead(k))
    /\ \E k \in 1..nRead :
          /\ Processed(k)
          /\ AtFor("stepNewManagedResource", k) # {}
          /\ AtFor("addStepsForManagedResource", k) # {}

\* The replacements the converter returned at position i of the history.
ReturnedAt(i) ==
    ConvResource(resourceConverters[calls[i].mg.gvk], calls[i].mg)

\* The converter call at position i returned a resource without a GVK.
MissingGVKAt(i) ==
    /\ calls[i].op = "conv.Resource"
    /\ ReturnedAt(i).err = <<>>
    /\ \E j \in 1..Len(ReturnedAt(i).resources) :
          ReturnedAt(i).resources[j].gvk = ZeroGVK

\* Generation failed with the missing-GVK error right after position i,
\* with no step requested for the object being converted.
FailsWithoutStepAt(i) ==
    /\ Returned
    /\ ret[1] = errPlanGeneration /\ ret[Len(ret)] = errMissingGVK
    /\ \A op \in StepOps : AtFor(op, calls[i].n) = {}
    /\ \A j \in (i + 1)..Len(calls) : calls[j].op = "commitSteps"

(* C6 as stated: when a converter returns a resource whose GVK is the zero *)
(* value, generation fails with the missing-GVK error, no step is          *)
(* requested for the object being converted, and the plan holds no emitted *)
(* step at the moment of failure, whatever objects preceded it.            *)
C6_Original ==
    \A i \in 1..Len(calls) : MissingGVKAt(i) =>
        /\ FailsWithoutStepAt(i)
        /\ \A j \in 1..i : calls[j].op \notin StepOps

(* C6, amended: when a converter returns a resource whose GVK is the zero  *)
(* value, generation fails with the missing-GVK error before any step is   *)
(* requested for the object being converted (no NewManagedResource,        *)
(* StartManagedResource or NewComposition for it) and nothing but the      *)
(* commit follows; steps requested for earlier objects stay in the plan.   *)
C6_MissingGVKFailsBeforeSteps ==
    \A i \in 1..Len(calls) : MissingGVKAt(i) => FailsWithoutStepAt(i)

\* The second object's converter forgot a GVK after steps had been
\* requested for the first object.
C6_Witness ==
    /\ pc = "done"
    /\ \E i \in 1..Len(calls) : MissingGVKAt(i) /\ calls[i].n = 2
    /\ \E op \in StepOps : AtFor(op, 1) # {}

\* Object number k is a plain resource whose converter returned
\* replacements (without error) at position i.
ConvertedAt(i, k) ==
    /\ i \in AtFor("conv.Resource", k)
    /\ IsPlainObject(ObjectRead(k))
    /\ ReturnedAt(i).err = <<>>

\* The NewManagedResource and StartManagedResource requests for object k.
ManagedStepsFor(k) ==
    SelectSeq(calls, LAMBDA c :
        c.n = k /\ c.op \in {"stepNewManagedResource", "stepStartManagedResource"})

\* The converted-resource map holds, under the key of object k as it was
\* read, the list returned at position i.
RecordedAt(i, k) ==
    \A src \in {ObjectRead(k)} : \A res \in {ReturnedAt(i).resources} :
       \A key \in {[Kind |-> src.Object.gvk.Kind,
                     Name |-> src.Object.name,
                     APIVersion |-> src.Object.gvk.Group \o "/"
                                      \o src.Object.gvk.Version]} :
          /\ key \in DOMAIN convertedMR
          /\ Len(convertedMR[key]) = Len(res)
          /\ \A j \in 1..Len(res) :
                /\ convertedMR[key][j].Object.gvk = res[j].gvk
                /\ convertedMR[key][j].Object.name = res[j].name
                /\ convertedMR[key][j].Metadata = src.Metadata

\* The requests for object k are the first ones of New(t1), Start(t1),
\* New(t2), ... over the recorded list ts, and only the last can fail.
PairedPrefix(k, ts) ==
    \A st \in {ManagedStepsFor(k)} :
       /\ Len(st) <= 2 * Len(ts)
       /\ \A j \in 1..Len(st) :
             /\ st[j].op = (IF j % 2 = 1 THEN "stepNewManagedResource"
                            ELSE "stepStartManagedResource")
             /\ st[j].o = ts[(j + 1) \div 2]
             /\ j < Len(st) => st[j].ok

(* C7 as stated: for a plain resource whose converter returns n            *)
(* replacements exactly n NewManagedResource and n StartManagedResource    *)
(* steps are requested, each New before its Start, in the order returned,  *)
(* and the converted-resource map records the n replacements under the     *)
(* original (kind, name, apiVersion).                                      *)
C7_Original ==
    \A k \in 1..nRead : \A i \in AtFor("conv.Resource", k) :
        (ConvertedAt(i, k) /\ Dispatched(k)) =>
            /\ RecordedAt(i, k)
            /\ PairedPrefix(k, convertedMR[ObjectReference(ObjectRead(k).Object.gvk,
                                                           ObjectRead(k).Object.name)])
            /\ Len(ManagedStepsFor(k)) = 2 * Len(ReturnedAt(i).resources)

(* C7, amended: for a plain resource whose converter returns n             *)
(* replacements that all carry a GVK, the map records the n replacements   *)
(* under the original (kind, name, apiVersion), and the steps requested    *)
(* are New(t1), Start(t1), New(t2), ... in the order returned, up to the   *)
(* first request that fails, which aborts generation; when no request      *)
(* fails exactly n New and n Start steps are requested.                    *)
C7_ConvertedResourceSteps ==
    \A k \in 1..nRead : \A i \in AtFor("conv.Resource", k) :
        (ConvertedAt(i, k) /\ Dispatched(k) /\ ~MissingGVKAt(i)) =>
            /\ RecordedAt(i, k)
            /\ PairedPrefix(k, convertedMR[ObjectReference(ObjectRead(k).Object.gvk,
                                                           ObjectRead(k).Object.name)])
            /\ \A st \in {ManagedStepsFor(k)} :
                  /\ \/ Len(st) = 2 * Len(ReturnedAt(i).resources)
                     \/ Len(st) > 0 /\ ~st[Len(st)].ok
                  /\ (\E j \in 1..Len(st) : ~st[j].ok) =>
                        /\ Returned
                        /\ ret = <<errPlanGeneration, errResourceMigrate>> \o StepError
                        /\ AtFor("addStepsForManagedResource", k) = {}

\* A resource converted into two replacements got its four requests.
C7_Witness ==
    \E k \in 1..nRead : \E i \in 1..Len(calls) :
        /\ ConvertedAt(i, k) /\ Processed(k)
        /\ Len(ReturnedAt(i).resources) = 2
        /\ Len(ManagedStepsFor(k)) = 4

\* Object number k is a plain object whose exact GVK has no registered
\* converter, and its dispatch branch has run.
UnconvertedPlain(k) ==
    /\ Dispatched(k)
    /\ IsPlainObject(ObjectRead(k))
    /\ ObjectRead(k).Object.gvk \notin DOMAIN resourceConverters

(* C8: for a plain resource without a registered converter that is a       *)
(* managed resource type, exactly one StartManagedResource step is         *)
(* requested, for the original object, no NewManagedResource step is       *)
(* requested and the converted-resource map gets no entry for it; for a    *)
(* plain object that is neither converted nor a managed resource type the  *)
(* dispatch branch requests no step.                                       *)
C8_UnconvertedResource ==
    \A k \in 1..nRead : UnconvertedPlain(k) =>
        IF toManagedResource(scheme, ObjectRead(k).Object).ok
        THEN /\ Cardinality(AtFor("stepStartManagedResource", k)) = 1
             /\ \A i \in AtFor("stepStartManagedResource", k) :
                   calls[i].o = ObjectRead(k)
             /\ \A op \in StepOps \ {"stepStartManagedResource"} :
                   AtFor(op, k) = {}
             /\ ObjectReference(ObjectRead(k).Object.gvk,
                                ObjectRead(k).Object.name) \notin DOMAIN convertedMR
        ELSE /\ \A op \in StepOps : AtFor(op, k) = {}
             /\ ObjectReference(ObjectRead(k).Object.gvk,
                                ObjectRead(k).Object.name) \notin DOMAIN convertedMR

\* Both cases have happened: a managed resource without converter was
\* started and an object of an unknown type went through without a step.
C8_Witness ==
    /\ \E k \in 1..nRead :
          /\ UnconvertedPlain(k) /\ Processed(k)
          /\ toManagedResource(scheme, ObjectRead(k).Object).ok
          /\ AtFor("stepStartManagedResource", k) # {}
    /\ \E k \in 1..nRead :
          /\ UnconvertedPlain(k) /\ Processed(k)
          /\ ~toManagedResource(scheme, ObjectRead(k).Object).ok

\* The envelopes convertResource is called on while the object src read
\* from the source is dispatched, with the context of the call: the object
\* itself outside a composition, the bases of its templates inside one.
ConvertResourceInputs(src) ==
    IF src.Object.gvk = CompositionGroupVersionKind
    THEN {[o |-> UnstructuredWithMetadata(
                     FromRawExtension(src.Object.resources[j].Base),
                     src.Metadata.Category),
           ctx |-> TRUE] : j \in 1..Len(src.Object.resources)}
    ELSE IF IsPlainObject(src)
    THEN {[o |-> src, ctx |-> FALSE]}
    ELSE {}

\* No converter is registered for any envelope converted for src.
NoConverterFor(src) ==
    \A arg \in ConvertResourceInputs(src) :
        arg.o.Object.gvk \notin DOMAIN resourceConverters

(* C9: convertResource on an object whose exact GVK has no registered      *)
(* converter returns exactly one envelope identical to the input, with     *)
(* converted = false and no error, in composition and in non-composition   *)
(* context, and invokes no converter and no managed-resource decoding: the *)
(* only decoding in the run of such an object is the one convert makes     *)
(* itself for a plain object, and the step convert requests carries the    *)
(* object as it was read, without a name or generateName assigned.         *)
C9_NoConverterPassThrough ==
    \A objs \in {SourceObjects} : \A k \in 1..nRead : Dispatched(k) =>
      \A src \in {objs[k]} : \A args \in {ConvertResourceInputs(src)} :
        /\ \A arg \in args : \A ctx \in BOOLEAN :
              arg.o.Object.gvk \notin DOMAIN resourceConverters =>
                 \A r \in {convertResource(arg.o, ctx)} :
                    /\ r.targets = <<arg.o>>
                    /\ r.converted = FALSE
                    /\ r.err = <<>>
                    /\ r.trace = <<>>
        /\ (args # {} /\ NoConverterFor(src)) =>
              /\ AtFor("conv.Resource", k) = {}
              /\ Cardinality(AtFor("toManagedResource", k)) =
                    (IF IsPlainObject(src) THEN 1 ELSE 0)
              /\ \A i \in AtFor("stepStartManagedResource", k) :
                    calls[i].o = src

\* An unconverted nameless-prefix resource was converted outside a
\* composition and a template without converter inside one.
C9_Witness ==
    /\ \E k \in 1..nRead :
          /\ UnconvertedPlain(k) /\ Processed(k)
          /\ ObjectRead(k).Object.generateName = ""
          /\ AtFor("stepStartManagedResource", k) # {}
    /\ \E k \in 1..nRead :
          /\ Processed(k)
          /\ ObjectRead(k).Object.gvk = CompositionGroupVersionKind
          /\ ConvertResourceInputs(ObjectRead(k)) # {}
          /\ NoConverterFor(ObjectRead(k))

\* Object number k is a Composition and its case of the switch has run.
CompositionDispatched(k) ==
    /\ Dispatched(k)
    /\ ObjectRead(k).Object.gvk = CompositionGroupVersionKind

\* convertComposition reports converted = true, without error, for o.
ReportedConverted(o) ==
    \A r \in {convertComposition(o, [i \in 1..2 |-> "abcde"])} :
        r.err = <<>> /\ r.converted

\* What convertComposition reports does not depend on the strings
\* rand.String yields: they only go into names.
ReportIgnoresRand ==
    \A o \in Objects : o.Object.gvk = CompositionGroupVersionKind =>
        \A rnd \in [1..2 -> RandStrings] :
            \A r \in {convertComposition(o, rnd)} :
               \A q \in {convertComposition(o, [i \in 1..2 |-> "abcde"])} :
                  r.err = q.err /\ r.converted = q.converted

\* The numbers of the Composition objects of objs dispatched so far.
CompositionsIn(objs) ==
    {k \in 1..Len(objs) :
        Dispatched(k) /\ objs[k].Object.gvk = CompositionGroupVersionKind}

(* C10: for each Composition read in the main pass a NewComposition step   *)
(* is requested if and only if its conversion reported converted = true;   *)
(* the emitted composition is then named <original name>-migrated and the  *)
(* composition-name map holds original name -> <original name>-migrated.   *)
(* At every point each entry of the map has value = key + "-migrated" and  *)
(* its keys are exactly the names of the compositions converted so far.    *)
C10_NewCompositionIffConverted ==
    /\ pc = "start" => ReportIgnoresRand
    /\ \A objs \in {SourceObjects} :
         \A converted \in {{k \in CompositionsIn(objs) : ReportedConverted(objs[k])}} :
           /\ \A k \in CompositionsIn(objs) :
                 \A emitted \in {AtFor("stepNewComposition", k)} :
                    /\ emitted # {} <=> k \in converted
                    /\ Cardinality(emitted) <= 1
                    /\ \A i \in emitted :
                          /\ calls[i].o.Object.name = objs[k].Object.name \o "-migrated"
                          /\ objs[k].Object.name \in DOMAIN convertedComposition
           /\ \A i \in At("stepNewComposition") : calls[i].n \in CompositionsIn(objs)
           /\ DOMAIN convertedComposition = {objs[k].Object.name : k \in converted}
    /\ \A name \in DOMAIN convertedComposition :
          convertedComposition[name] = name \o "-migrated"

\* One composition was converted and emitted, another was read and left
\* alone.
C10_Witness ==
    /\ \E k \in 1..nRead :
          /\ CompositionDispatched(k) /\ Processed(k)
          /\ AtFor("stepNewComposition", k) # {}
    /\ \E k \in 1..nRead :
          /\ CompositionDispatched(k) /\ Processed(k)
          /\ AtFor("stepNewComposition", k) = {}

\* The fixed draw of rand.String the reports are computed with.
NoRand == [i \in 1..2 |-> "abcde"]

(* C11: convertComposition reports converted = true if and only if at     *)
(* least one composed template's base was converted by a resource         *)
(* converter or at least one patch set was changed by a matching          *)
(* patch-set converter: for every Composition dispatched whose conversion *)
(* returns no error, the report is true exactly when a resource converter *)
(* ran for one of its templates or convertPatchSets lists a changed patch *)
(* set.                                                                    *)
C11_ConvertedIffTemplateOrPatchSet ==
    \A objs \in {SourceObjects} : \A k \in CompositionsIn(objs) :
       \A r \in {convertComposition(objs[k], NoRand)} :
          r.err = <<>> =>
             (r.converted <=> \/ AtFor("conv.Resource", k) # {}
                              \/ convertPatchSets(objs[k]).converted # <<>>)

\* Composition number c of objs was migrated: its NewComposition step was
\* requested under the -migrated name.
Migrated(c) == AtFor("stepNewComposition", c) # {}

\* Claim number k of objs references composition number c by name.
References(objs, k, c) ==
    /\ IsClaimObject(objs[k])
    /\ objs[c].Object.gvk = CompositionGroupVersionKind
    /\ compositionRef(objs[k].Object) = objs[c].Object.name

(* C12: the claim-edit pass is given every deferred claim and the complete *)
(* old-name -> new-name map, so for every claim read that references by    *)
(* name a composition migrated in the same run, whether the claim came     *)
(* before or after the composition in the source, the pass rewrites the    *)
(* reference to the composition's -migrated name.                          *)
C12_ClaimsFollowMigratedComposition ==
    \A objs \in {SourceObjects} : \A i \in At("stepEditClaims") :
       /\ calls[i].claims = ReadWhere(objs, LAMBDA k : IsClaimObject(objs[k]))
       /\ calls[i].convertedComposition = convertedComposition
       /\ \A c \in 1..nRead : Migrated(c) =>
             /\ objs[c].Object.name \in DOMAIN calls[i].convertedComposition
             /\ \A k \in 1..nRead : References(objs, k, c) =>
                   \A edited \in {stepEditClaims(calls[i].claims,
                                                 calls[i].convertedComposition)} :
                      \E j \in 1..Len(edited) :
                         /\ edited[j].name = objs[k].Object.name
                         /\ edited[j].compositionRef =
                               objs[c].Object.name \o "-migrated"

\* A claim read before the composition it references was edited by the
\* pass after the composition had been migrated.
C12_Witness ==
    /\ pc = "done" /\ ret = <<>>
    /\ \E i \in At("stepEditClaims") : calls[i].ok
    /\ \E k \in 1..nRead : \E c \in 1..nRead :
          /\ k < c
          /\ Migrated(c)
          /\ References(SourceObjects, k, c)

\* The number of templates the composed template cmp of a composition of
\* category cat fans out into: the replacements of its base.
FanOut(cmp, cat) ==
    Len(convertResource(
            UnstructuredWithMetadata(FromRawExtension(cmp.Base), cat), TRUE).targets)

\* The number of templates produced for the templates before number t.
RECURSIVE Offset(_, _)
Offset(src, t) ==
    IF t <= 1 THEN 0
    ELSE Offset(src, t - 1) + FanOut(src.Object.resources[t - 1], src.Metadata.Category)

\* The templates produced for template number t of src, taken from the
\* composition emitted at position i of the history.
ProducedFor(i, src, t) ==
    SubSeq(calls[i].o.Object.resources,
           Offset(src, t) + 1,
           Offset(src, t) + FanOut(src.Object.resources[t], src.Metadata.Category))

\* name is orig followed by a dash and a value of rand.String.
Renamed(name, orig) == \E suffix \in RandStrings : name = orig \o "-" \o suffix

KindOf(cmp) == FromRawExtension(cmp.Base).gvk.Kind

\* C13 and C14 are about the templates of a composition emitted at
\* position i, produced for template number t of the composition src read,
\* whose source type is not on the skip list.
FansOutAt(i, src, t) ==
    /\ calls[i].op = "stepNewComposition"
    /\ src.Object.gvk = CompositionGroupVersionKind
    /\ t \in 1..Len(src.Object.resources)
    /\ ~isGVKSkipped(FromRawExtension(src.Object.resources[t].Base).gvk)

(* C13 as stated: of the templates one source template is converted into, *)
(* the first keeps the original name, and every subsequent one, as well   *)
(* as any whose kind differs from the source kind, is named               *)
(* <original name>-<random suffix>.                                        *)
C13_Original ==
    \A objs \in {SourceObjects} : \A i \in At("stepNewComposition") :
       \A src \in {objs[calls[i].n]} : \A t \in 1..Len(src.Object.resources) :
          FansOutAt(i, src, t) =>
             \A ps \in {ProducedFor(i, src, t)} : \A orig \in {src.Object.resources[t]} :
                \A j \in 1..Len(ps) :
                   IF j > 1 \/ KindOf(ps[j]) # KindOf(orig)
                   THEN Renamed(ps[j].Name, orig.Name)
                   ELSE ps[j].Name = orig.Name

\* keeper is the first template of ps whose kind is the source kind.
FirstOfKind(ps, kind, keeper) ==
    /\ KindOf(ps[keeper]) = kind
    /\ \A j \in 1..(keeper - 1) : KindOf(ps[j]) # kind

(* C13, amended: of the templates one source template (source type not on *)
(* the skip list) is converted into, the first one whose kind equals the  *)
(* source kind keeps the original name; every other one is named          *)
(* <original name>-<random suffix> when the original name is not empty,   *)
(* and keeps the empty name when it is empty or absent.                   *)
C13_FirstOfKindKeepsName ==
    \A objs \in {SourceObjects} : \A i \in At("stepNewComposition") :
       \A src \in {objs[calls[i].n]} : \A t \in 1..Len(src.Object.resources) :
          FansOutAt(i, src, t) =>
             \A ps \in {ProducedFor(i, src, t)} : \A orig \in {src.Object.resources[t]} :
                \A j \in 1..Len(ps) :
                   IF FirstOfKind(ps, KindOf(orig), j) \/ orig.Name = ""
                   THEN ps[j].Name = orig.Name
                   ELSE Renamed(ps[j].Name, orig.Name)

\* A template was converted into three, the second of which is the first
\* of the source kind: it kept the name and the two others were renamed.
C13_Witness ==
    \E i \in At("stepNewComposition") :
       \E src \in {SourceObjects[calls[i].n]} : \E t \in 1..Len(src.Object.resources) :
          /\ FansOutAt(i, src, t)
          /\ \E ps \in {ProducedFor(i, src, t)} :
                /\ Len(ps) = 3
                /\ ps[2].Name = src.Object.resources[t].Name
                /\ Renamed(ps[1].Name, src.Object.resources[t].Name)
                /\ Renamed(ps[3].Name, src.Object.resources[t].Name)

(* C14: after a one-to-many conversion of a composed template no two      *)
(* composed templates of the resulting composition have the same name:    *)
(* whatever the fan-out, the skip list, the source template name and the  *)
(* values the random suffix generator yields, the names of the templates  *)
(* produced are pairwise distinct and at most one of them is the original *)
(* template name.                                                          *)
C14_ProducedNamesDistinct ==
    \A objs \in {SourceObjects} : \A i \in At("stepNewComposition") :
       \A src \in {objs[calls[i].n]} : \A t \in 1..Len(src.Object.resources) :
          \A ps \in {ProducedFor(i, src, t)} :
             Len(ps) > 1 =>
                /\ \A j \in 1..Len(ps) : \A h \in 1..Len(ps) :
                      j # h => ps[j].Name # ps[h].Name
                /\ Cardinality({j \in 1..Len(ps) :
                                   ps[j].Name = src.Object.resources[t].Name}) <= 1
                /\ \A j \in 1..Len(calls[i].o.Object.resources) :
                      \A h \in 1..Len(calls[i].o.Object.resources) :
                         j # h => calls[i].o.Object.resources[j].Name
                                     # calls[i].o.Object.resources[h].Name

\* The collision that does not depend on the configuration: a named
\* template of a type that is not skipped fans out into templates two of
\* which drew the same random suffix.
C14_SameSuffixTwice ==
    \E i \in At("stepNewComposition") :
       \E src \in {SourceObjects[calls[i].n]} : \E t \in 1..Len(src.Object.resources) :
          /\ FansOutAt(i, src, t)
          /\ src.Object.resources[t].Name # ""
          /\ \E ps \in {ProducedFor(i, src, t)} :
                \E j \in 1..Len(ps) : \E h \in 1..Len(ps) :
                   j # h /\ ps[j].Name = ps[h].Name

---------------------------------------------------------------------------
(* isGVKSkipped on its own: a generator configured with any skip list of   *)
(* up to MaxSkipEntries entries is asked about one type.                   *)

MaxSkipEntries == 2

\* Skip-list entries: every component empty or set.
SkipEntries ==
    {GVK(g, v, k) : g \in {"", "s3.aws"}, v \in {"", "v1alpha1"}, k \in {"", "Bucket"}}

\* Types isGVKSkipped is asked about (the group of a core type is empty).
SkipInputs ==
    {GVK(g, v, k) : g \in {"", "s3.aws"}, v \in {"v1alpha1", "v1beta1"},
                    k \in {"Bucket", "VPC"}}

SkipInit ==
    /\ pc = "isGVKSkipped"
    /\ calls = <<>>
    /\ cur = Resource(ZeroGVK, "", CategoryUnknown)
    /\ nRead = 0
    /\ convertedMR = <<>>
    /\ convertedComposition = <<>>
    /\ composites = <<>>
    /\ claims = <<>>
    /\ ret = <<>>
    /\ Plan = [Version |-> ""]
    /\ SkipGVKs \in UNION {[1..n -> SkipEntries] : n \in 0..MaxSkipEntries}
    /\ ErrorOnInvalidPatchSchema = FALSE
    /\ NewEventHandler

\* pg.isGVKSkipped(sourceGVK), its result put in the history.
CallIsGVKSkipped ==
    /\ pc = "isGVKSkipped"
    /\ \E g \in SkipInputs :
         calls' = Append(calls, [sourceGVK |-> g, skipped |-> isGVKSkipped(g)]
                                  @@ Call("isGVKSkipped", 0, TRUE))
    /\ pc' = "done"
    /\ UNCHANGED <<cur, nRead, accumulators, ret, Plan, pgOptions, eventHandler>>

SkipNext == CallIsGVKSkipped

SkipSpec == SkipInit /\ [][SkipNext]_vars

\* Entry e matches type g: each of e's components is empty or g's.
EntryMatches(e, g) ==
    \A f \in {"Group", "Version", "Kind"} : e[f] = "" \/ e[f] = g[f]

(* C15: isGVKSkipped(g) is true if and only if some skip-list entry has    *)
(* each of group, version and kind empty or equal to g's; so an entry with *)
(* an empty group matches any group for its version and kind, an entry     *)
(* with all fields empty matches every type, and an empty skip list        *)
(* matches nothing.                                                        *)
C15_SkipWildcards ==
    \A i \in At("isGVKSkipped") : \A g \in {calls[i].sourceGVK} :
       /\ calls[i].skipped <=>
             \E e \in {SkipGVKs[j] : j \in 1..Len(SkipGVKs)} : EntryMatches(e, g)
       /\ (\E j \in 1..Len(SkipGVKs) :
              SkipGVKs[j] = GVK("", g.Version, g.Kind)) => calls[i].skipped
       /\ (\E j \in 1..Len(SkipGVKs) : SkipGVKs[j] = ZeroGVK) => calls[i].skipped
       /\ SkipGVKs = <<>> => ~calls[i].skipped

\* A type with a group was skipped by an entry that leaves the group
\* empty and sets version and kind.
C15_Witness ==
    \E i \in At("isGVKSkipped") :
       /\ calls[i].skipped
       /\ calls[i].sourceGVK.Group # ""
       /\ SkipGVKs = << GVK("", calls[i].sourceGVK.Version, calls[i].sourceGVK.Kind) >>

\* The version hooks of a configuration converter.
HookOps == {"ConfigurationV1", "ConfigurationV1Alpha1"}

\* Positions of the hook calls made for object number k, in order.
HooksFor(k) ==
    SelectSeq([i \in 1..Len(calls) |-> i],
              LAMBDA i : calls[i].n = k /\ calls[i].op \in HookOps)

\* The configuration as the hook called at position i left it.
AfterHook(i) ==
    ConvConfiguration(calls[i].converter, calls[i].op, calls[i].conf).conf

(* C16: the configuration converters that match a configuration's name    *)
(* run one after the other on the same decoded object: each is handed the *)
(* configuration as the one before left it, and the configuration         *)
(* convertConfiguration returns (the target of the EditConfiguration      *)
(* step) carries the edits of all of them.                                *)
C16_ConvertersShareDecodedObject ==
    \A k \in 1..nRead : \A hs \in {HooksFor(k)} :
       /\ \A j \in 2..Len(hs) : calls[hs[j]].conf = AfterHook(hs[j - 1])
       /\ \A i \in AtFor("stepEditConfiguration", k) :
             \A j \in 1..Len(hs) :
                \A e \in {AfterHook(hs[j]).edits[x] :
                             x \in 1..Len(AfterHook(hs[j]).edits)} :
                   \E y \in 1..Len(calls[i].target.Object.edits) :
                      calls[i].target.Object.edits[y] = e

\* The registered configuration converters that match name, in
\* registration order: pattern and converter not nil, pattern matching.
MatchingConverters(name) ==
    SelectSeq(configurationConverters,
              LAMBDA c : ~c.reNil /\ c.converter # "" /\ name \in c.re)

(* C17: for each Configuration object (of either API version) processed   *)
(* without error, an EditConfiguration step is requested exactly once if  *)
(* a registered configuration converter with a pattern and a converter    *)
(* matches its name, even one that makes no edit, and none is requested   *)
(* if no converter matches; for each matching converter exactly one hook  *)
(* is invoked, in registration order: ConfigurationV1Alpha1 when the      *)
(* object's version is v1alpha1, ConfigurationV1 otherwise.               *)
C17_EditConfigurationIffMatched ==
    \A objs \in {SourceObjects} : \A k \in 1..nRead :
       (Processed(k) /\ IsConfiguration(objs[k].Object.gvk)) =>
          \A ms \in {MatchingConverters(objs[k].Object.name)} : \A hs \in {HooksFor(k)} :
             /\ Cardinality(AtFor("stepEditConfiguration", k)) =
                   (IF Len(ms) > 0 THEN 1 ELSE 0)
             /\ \A i \in AtFor("stepEditConfiguration", k) :
                   calls[i].o = objs[k] /\ \A j \in 1..Len(hs) : hs[j] < i
             /\ Len(hs) = Len(ms)
             /\ \A j \in 1..Len(hs) :
                   /\ calls[hs[j]].converter = ms[j].converter
                   /\ calls[hs[j]].op =
                         (IF objs[k].Object.gvk.Version = "v1alpha1"
                          THEN "ConfigurationV1Alpha1" ELSE "ConfigurationV1")

\* A v1 configuration matched by two converters, the last of which makes
\* no edit, got its step; a v1alpha1 configuration that no converter
\* matches got none.
C17_Witness ==
    /\ \E k \in 1..nRead :
          /\ Processed(k)
          /\ Len(HooksFor(k)) = 2
          /\ calls[HooksFor(k)[2]].converter = "noop"
          /\ AtFor("stepEditConfiguration", k) # {}
    /\ \E k \in 1..nRead :
          /\ Processed(k)
          /\ IsConfiguration(ObjectRead(k).Object.gvk)
          /\ ObjectRead(k).Object.gvk.Version = "v1alpha1"
          /\ MatchingConverters(ObjectRead(k).Object.name) = <<>>
          /\ AtFor("stepEditConfiguration", k) = {}

\* The template-converter calls made for object number k, in order.
TemplateCallsFor(k) ==
    SelectSeq(calls, LAMBDA c : c.n = k /\ c.op = "conv.ComposedTemplate")

\* The type of the base of a composed template.
BaseGVK(cmp) == FromRawExtension(cmp.Base).gvk

\* The types of the templates that template cmp of a composition of
\* category cat is converted into.
TargetGVKs(cmp, cat) ==
    {u.Object.gvk : u \in
        {convertResource(UnstructuredWithMetadata(FromRawExtension(cmp.Base), cat),
                         TRUE).targets[j] : j \in 1..FanOut(cmp, cat)}}

(* C18 as stated: for a composition converted without error, a template   *)
(* converter is invoked for a composed template if and only if one is      *)
(* registered for the type the template's base was converted into.         *)
C18_Original ==
    \A objs \in {SourceObjects} : \A k \in CompositionsIn(objs) :
       Processed(k) =>
          \A tc \in {TemplateCallsFor(k)} : \A t \in 1..Len(objs[k].Object.resources) :
             \A cmp \in {objs[k].Object.resources[t]} :
                (\E j \in 1..Len(tc) : tc[j].cmp = cmp)
                   <=> (TargetGVKs(cmp, objs[k].Metadata.Category)
                           \cap DOMAIN templateConverters # {})

\* The numbers of the templates of src for whose source type a template
\* converter is registered, in order.
RegisteredTemplates(src) ==
    SelectSeq([t \in 1..Len(src.Object.resources) |-> t],
              LAMBDA t : BaseGVK(src.Object.resources[t]) \in DOMAIN templateConverters)

\* The template-converter call c failed.
TemplateCallFailed(c) ==
    ConvComposedTemplate(templateConverters[c.gvk], c.cmp, c.cmps) # <<>>

(* C18, amended: during composition conversion, after the base of a        *)
(* composed template has been converted and defaulted, a template-level    *)
(* converter is invoked if and only if one is registered for the type of   *)
(* the template's original (source) base; it is then invoked with the      *)
(* original template and all of its replacements, and its failure aborts   *)
(* the composition's conversion.                                           *)
C18_TemplateConverterBySourceType ==
    \A objs \in {SourceObjects} : \A k \in CompositionsIn(objs) :
       \A tc \in {TemplateCallsFor(k)} : \A rt \in {RegisteredTemplates(objs[k])} :
          /\ Len(tc) <= Len(rt)
          /\ Processed(k) => Len(tc) = Len(rt)
          /\ \A j \in 1..Len(tc) :
                /\ tc[j].cmp = objs[k].Object.resources[rt[j]]
                /\ tc[j].gvk = BaseGVK(tc[j].cmp)
                /\ Len(tc[j].cmps) = FanOut(tc[j].cmp, objs[k].Metadata.Category)
                /\ \A i \in AtFor("stepNewComposition", k) :
                      tc[j].cmps = ProducedFor(i, objs[k], rt[j])
                /\ TemplateCallFailed(tc[j]) =>
                      /\ j = Len(tc)
                      /\ Returned
                      /\ ret = <<errPlanGeneration,
                                 errCompositionMigrateFmt \o objs[k].Object.name,
                                 errComposedTemplateMigrate>>
                               \o ConvComposedTemplate(templateConverters[tc[j].gvk],
                                                       tc[j].cmp, tc[j].cmps)
                      /\ AtFor("stepNewComposition", k) = {}
                      /\ \A h \in 1..Len(calls) :
                            (calls[h].n = k /\ calls[h].op = "conv.ComposedTemplate"
                                            /\ calls[h].cmp = tc[j].cmp)
                               => \A g \in (h + 1)..Len(calls) :
                                     calls[g].op = "commitSteps"

\* A composition was emitted whose bucket template went to the converter
\* registered for the source type with its two replacements, and whose
\* vpc template, converted into a type with a registered converter, went
\* to none; and another composition's conversion was aborted by a failing
\* template converter.
C18_Witness ==
    /\ \E k \in 1..nRead :
          /\ Processed(k)
          /\ AtFor("stepNewComposition", k) # {}
          /\ \E tc \in {TemplateCallsFor(k)} :
                /\ Len(tc) = 1
                /\ tc[1].gvk = BucketGVK
                /\ Len(tc[1].cmps) = 2
          /\ \E t \in 1..Len(ObjectRead(k).Object.resources) :
                VPCTargetGVK \in TargetGVKs(ObjectRead(k).Object.resources[t],
                                            ObjectRead(k).Metadata.Category)
    /\ \E k \in 1..nRead : \E tc \in {TemplateCallsFor(k)} :
          Len(tc) = 1 /\ TemplateCallFailed(tc[1])

---------------------------------------------------------------------------
(* The EventHandler of pkg/controller/handler.  Every method runs under    *)
(* e.mu, so one action is one call.  The rate limiters are those of        *)
(* workqueue.DefaultControllerRateLimiter(): per item they count the calls *)
(* of When since the last Forget; the delay When returns is handed to      *)
(* AddAfter and decides nothing here, so only the call is recorded.        *)

\* Number of RequestReconcile and Forget calls in one run.
MaxRequests == 3

Names == {"a", "b"}
RateLimiterNames == {"x", "y"}
\* Names of the objects the events are about.
EventObjects == {"a"}
\* failureLimit *int: <<>> is nil, <<L>> points to L.
FailureLimits == {<<>>, <<-1>>, <<1>>}

planGenerator == <<pc, calls, cur, nRead, accumulators, ret, Plan, pgOptions>>

HandlerInit ==
    /\ pc = "handler"
    /\ calls = <<>>
    /\ cur = Resource(ZeroGVK, "", CategoryUnknown)
    /\ nRead = 0
    /\ convertedMR = <<>>
    /\ convertedComposition = <<>>
    /\ composites = <<>>
    /\ claims = <<>>
    /\ ret = <<>>
    /\ Plan = [Version |-> ""]
    /\ SkipGVKs = <<>>
    /\ ErrorOnInvalidPatchSchema = FALSE
    /\ NewEventHandler

\* workqueue.DefaultControllerRateLimiter(): no item has been requeued.
DefaultControllerRateLimiter == [item \in Names |-> 0]

\* rateLimiter.NumRequeues(item)
NumRequeues(rateLimiter, item) == rateLimiter[item]

\* rateLimiter.When(item): one more requeue of the item.
When(rateLimiter, item) == [rateLimiter EXCEPT ![item] = @ + 1]

\* rateLimiter.Forget(item)
ForgetItem(rateLimiter, item) == [rateLimiter EXCEPT ![item] = 0]

\* e.rateLimiterMap[rateLimiterName]: <<>> is nil, <<r>> the limiter r.
lookupRateLimiter(rateLimiterName) ==
    IF rateLimiterName \in DOMAIN rateLimiterMap
    THEN <<rateLimiterMap[rateLimiterName]>> ELSE <<>>

\* e.rateLimiterMap[rateLimiterName] = rateLimiter
storeRateLimiter(rateLimiterName, rateLimiter) ==
    [n \in DOMAIN rateLimiterMap \cup {rateLimiterName} |->
        IF n = rateLimiterName THEN rateLimiter ELSE rateLimiterMap[n]]

\* The requeue count of the item under the named limiter (0 without one).
requeueCount(rateLimiterName, item) ==
    IF lookupRateLimiter(rateLimiterName) = <<>> THEN 0
    ELSE NumRequeues(lookupRateLimiter(rateLimiterName)[1], item)

\* failureLimit != nil && rateLimiter.NumRequeues(item) > *failureLimit
failureLimitExceeded_AtLimit(failureLimit, numRequeues) ==
    failureLimit # <<>> /\ numRequeues >= failureLimit[1]

failureLimitExceeded(failureLimit, numRequeues) ==
    failureLimit # <<>> /\ numRequeues > failureLimit[1]

\* A RequestReconcile call in the history: its arguments, e.queue and the
\* requeue count when it was made, its result and its AddAfter calls.
RequestCall(rateLimiterName, name, failureLimit, result, addAfter) ==
    [op |-> "RequestReconcile", rateLimiterName |-> rateLimiterName,
     name |-> name, failureLimit |-> failureLimit, queue |-> queue,
     numRequeues |-> requeueCount(rateLimiterName, name),
     ret |-> result, addAfter |-> addAfter]

\* setQueue that stores the queue of every event.
setQueue_Always(limitingInterface) == limitingInterface

\* e.setQueue(limitingInterface)
setQueue(limitingInterface) ==
    IF queue = NoQueue THEN limitingInterface ELSE queue

\* An event: setQueue, then the inner handler adds the object's request
\* to the queue the event came with.
Event(name, limitingInterface) ==
    /\ pc = "handler"
    /\ queue' = setQueue(limitingInterface)
    /\ enqueued' = [enqueued EXCEPT ![limitingInterface] = @ \cup {name}]
    /\ UNCHANGED <<rateLimiterMap, ehCalls, locking, planGenerator>>

Create == \E name \in EventObjects : \E q \in Queues : Event(name, q)

Update == \E name \in EventObjects : \E q \in Queues : Event(name, q)

Delete == \E name \in EventObjects : \E q \in Queues : Event(name, q)

Generic == \E name \in EventObjects : \E q \in Queues : Event(name, q)

\* RequestReconcile that enqueues before it looks at the failure limit.
RequestReconcile_EnqueueFirst ==
    /\ pc = "handler"
    /\ Len(ehCalls) < MaxRequests
    /\ \E rateLimiterName \in RateLimiterNames : \E name \in Names :
       \E failureLimit \in FailureLimits :
         IF queue = NoQueue
         THEN /\ ehCalls' = Append(ehCalls,
                     RequestCall(rateLimiterName, name, failureLimit, FALSE, <<>>))
              /\ UNCHANGED rateLimiterMap
         ELSE \E rateLimiter \in
                {IF lookupRateLimiter(rateLimiterName) = <<>>
                 THEN DefaultControllerRateLimiter
                 ELSE lookupRateLimiter(rateLimiterName)[1]} :
                /\ rateLimiterMap' =
                       storeRateLimiter(rateLimiterName, When(rateLimiter, name))
                /\ ehCalls' = Append(ehCalls,
                       RequestCall(rateLimiterName, name, failureLimit,
                           ~failureLimitExceeded(failureLimit,
                                                 NumRequeues(rateLimiter, name)),
                           <<[queue |-> queue, item |-> name]>>))
    /\ UNCHANGED <<queue, enqueued, locking, planGenerator>>

\* e.RequestReconcile(rateLimiterName, name, failureLimit)
RequestReconcile ==
    /\ pc = "handler"
    /\ Len(ehCalls) < MaxRequests
    /\ \E rateLimiterName \in RateLimiterNames : \E name \in Names :
       \E failureLimit \in FailureLimits :
         IF queue = NoQueue
         THEN /\ ehCalls' = Append(ehCalls,
                     RequestCall(rateLimiterName, name, failureLimit, FALSE, <<>>))
              /\ UNCHANGED rateLimiterMap
         ELSE \E rateLimiter \in
                {IF lookupRateLimiter(rateLimiterName) = <<>>
                 THEN DefaultControllerRateLimiter
                 ELSE lookupRateLimiter(rateLimiterName)[1]} :
                IF failureLimitExceeded(failureLimit, NumRequeues(rateLimiter, name))
                THEN /\ rateLimiterMap' =
                            storeRateLimiter(rateLimiterName, rateLimiter)
                     /\ ehCalls' = Append(ehCalls,
                            RequestCall(rateLimiterName, name, failureLimit,
                                        FALSE, <<>>))
                ELSE /\ rateLimiterMap' =
                            storeRateLimiter(rateLimiterName, When(rateLimiter, name))
                     /\ ehCalls' = Append(ehCalls,
                            RequestCall(rateLimiterName, name, failureLimit, TRUE,
                                        <<[queue |-> queue, item |-> name]>>))
    /\ UNCHANGED <<queue, enqueued, locking, planGenerator>>

\* e.Forget(rateLimiterName, name)
Forget ==
    /\ pc = "handler"
    /\ Len(ehCalls) < MaxRequests
    /\ \E rateLimiterName \in RateLimiterNames : \E name \in Names :
         /\ rateLimiterMap' =
              IF lookupRateLimiter(rateLimiterName) = <<>> THEN rateLimiterMap
              ELSE storeRateLimiter(rateLimiterName,
                       ForgetItem(lookupRateLimiter(rateLimiterName)[1], name))
         /\ ehCalls' = Append(ehCalls,
              [op |-> "Forget", rateLimiterName |-> rateLimiterName,
               name |-> name])
    /\ UNCHANGED <<queue, enqueued, locking, planGenerator>>

HandlerNext ==
    \/ Create
    \/ Update
    \/ Delete
    \/ Generic
    \/ RequestReconcile
    \/ Forget

HandlerSpec == HandlerInit /\ [][HandlerNext]_vars

\* The RequestReconcile calls of the history.
RequestCalls == {i \in 1..Len(ehCalls) : ehCalls[i].op = "RequestReconcile"}

\* The call found the failure limit exceeded.
LimitExceededAt(c) ==
    c.failureLimit # <<>> /\ c.numRequeues > c.failureLimit[1]

\* C19: a RequestReconcile call returns true exactly when it made one
\* AddAfter call, for its name, on the handler's queue; a call that returns
\* false made no AddAfter call, and it returns false exactly when no queue
\* was set yet (no event has arrived) or the failure limit was exceeded.
C19_TrueIffEnqueued ==
    /\ queue = NoQueue <=> \A q \in Queues : enqueued[q] = {}
    /\ \A i \in RequestCalls : \A c \in {ehCalls[i]} :
         /\ c.ret <=> c.addAfter = <<[queue |-> c.queue, item |-> c.name]>>
         /\ ~c.ret => c.addAfter = <<>>
         /\ c.ret => c.queue \in Queues
         /\ ~c.ret <=> (c.queue = NoQueue \/ LimitExceededAt(c))

\* One call was turned away for want of a queue, one enqueued, and one was
\* turned away by the failure limit.
C19_Witness ==
    /\ \E i \in RequestCalls : ~ehCalls[i].ret /\ ehCalls[i].queue = NoQueue
    /\ \E i \in RequestCalls : ehCalls[i].ret /\ Len(ehCalls[i].addAfter) = 1
    /\ \E i \in RequestCalls :
         /\ ~ehCalls[i].ret
         /\ ehCalls[i].queue # NoQueue
         /\ LimitExceededAt(ehCalls[i])

\* Calls i and j name the same rate limiter and the same item.
SameItem(i, j) ==
    /\ ehCalls[i].rateLimiterName = ehCalls[j].rateLimiterName
    /\ ehCalls[i].name = ehCalls[j].name

\* The last Forget for the item of call i before position k (0: none, the
\* handler was fresh).
Latest(js) == IF js = {} THEN 0 ELSE CHOOSE j \in js : \A h \in js : h <= j

LastForget(i, k) ==
    Latest({j \in 1..(k - 1) : ehCalls[j].op = "Forget" /\ SameItem(i, j)})

\* The RequestReconcile calls for the item of call i, made with a queue
\* set, since that Forget and before position k.
RequestsSince(i, k) ==
    {j \in (LastForget(i, k) + 1)..(k - 1) :
        /\ ehCalls[j].op = "RequestReconcile"
        /\ SameItem(i, j)
        /\ ehCalls[j].queue # NoQueue}

\* max(L + 1, 0)
Allowed(L) == IF L + 1 > 0 THEN L + 1 ELSE 0

\* C20: of the RequestReconcile calls made for one rate limiter and name
\* with a queue set and the same failure limit L, counted from a fresh
\* handler or the last Forget for them, the first max(L+1, 0) return true
\* and the later ones false; the requeue count a call finds, and the one
\* left at the end, is the number of these calls that returned true, so
\* rejected calls and calls for other names or limiters do not move it.
C20_LimitPlusOneThenRejected ==
    /\ \A i \in RequestCalls : \A c \in {ehCalls[i]} :
       \A before \in {RequestsSince(i, i)} :
         /\ c.numRequeues = Cardinality({j \in before : ehCalls[j].ret})
         /\ ( /\ c.queue # NoQueue
              /\ c.failureLimit # <<>>
              /\ \A j \in before : ehCalls[j].failureLimit = c.failureLimit )
            => (c.ret <=> Cardinality(before) < Allowed(c.failureLimit[1]))
    /\ \A i \in 1..Len(ehCalls) :
         requeueCount(ehCalls[i].rateLimiterName, ehCalls[i].name) =
            Cardinality({j \in RequestsSince(i, Len(ehCalls) + 1) : ehCalls[j].ret})
    /\ \A r \in RateLimiterNames : \A n \in Names :
         (\A i \in 1..Len(ehCalls) :
             ~(ehCalls[i].rateLimiterName = r /\ ehCalls[i].name = n))
         => requeueCount(r, n) = 0

\* With limit 1, two calls were accepted and the third was rejected.
C20_Witness ==
    \E i \in RequestCalls :
       /\ ehCalls[i].failureLimit = <<1>>
       /\ ~ehCalls[i].ret
       /\ Cardinality(RequestsSince(i, i)) = 2
       /\ \A j \in RequestsSince(i, i) :
            ehCalls[j].failureLimit = <<1>> /\ ehCalls[j].ret

\* The queues an event has come with so far.
EventQueues == {q \in Queues : enqueued[q] # {}}

\* C21: the handler's queue is assigned at most once.  While no event has
\* arrived it is unset; the first event stores the queue it came with; no
\* later step, not even an event with another queue, changes it; and every
\* RequestReconcile call that returned true made its AddAfter call on it.
C21_QueueAssignedOnce ==
    [][ /\ queue # NoQueue => queue' = queue
        /\ (queue = NoQueue /\ enqueued' = enqueued) => queue' = NoQueue
        /\ (queue = NoQueue /\ enqueued' # enqueued) =>
              /\ queue' \in Queues
              /\ enqueued'[queue'] # {}
              /\ \A q \in Queues \ {queue'} : enqueued'[q] = {}
        /\ \A i \in 1..Len(ehCalls') :
              (ehCalls'[i].op = "RequestReconcile" /\ ehCalls'[i].ret) =>
                 /\ ehCalls'[i].queue = queue'
                 /\ \A j \in 1..Len(ehCalls'[i].addAfter) :
                       ehCalls'[i].addAfter[j].queue = queue'
      ]_vars

\* Events came with both queues, the stored one is still the first, and a
\* request was enqueued onto it.
C21_Witness ==
    /\ queue \in Queues
    /\ EventQueues = Queues
    /\ \E i \in RequestCalls :
         /\ ehCalls[i].ret
         /\ ehCalls[i].addAfter = <<[queue |-> queue, item |-> ehCalls[i].name]>>

---------------------------------------------------------------------------
(* The EventHandler under concurrent callers.  Each goroutine makes one    *)
(* call at a time; a call is cut at its lock operations and at every read  *)
(* or write of e.queue and e.rateLimiterMap, so that the interleavings the *)
(* mutex allows are those of the model.  e.mu is a sync.RWMutex: Lock      *)
(* waits until no goroutine holds it, RLock until no writer holds it.      *)
(* Create, Update, Delete and Generic differ only in the method of the     *)
(* inner handler they call last, which adds the object's request to the    *)
(* queue the event came with.                                              *)

\* Number of calls the goroutines begin in one run.
MaxStarted == 3

\* Names the concurrent callers ask for: the locks do not depend on them.
ConcurrentNames == {"a"}

LockInit == HandlerInit

\* Goroutine g moves to position next.
Goto(g, next) == [goroutines EXCEPT ![g].pc = next]

\* A write of a field of e by goroutine g, with the state of e.mu then.
Write(g, field, key) ==
    [field |-> field, key |-> key, by |-> g, at |-> goroutines[g].pc, mu |-> mu]

\* e.mu.Lock() can return for g.
CanLock(g) == mu.writer = NoGoroutine /\ mu.readers = {}

\* e.mu.RLock() can return for g.
CanRLock(g) == mu.writer = NoGoroutine

\* A goroutine calls e.RequestReconcile(rateLimiterName, name, failureLimit).
CallRequestReconcile(g) ==
    /\ pc = "handler"
    /\ goroutines[g].pc = "idle"
    /\ started < MaxStarted
    /\ \E rateLimiterName \in RateLimiterNames : \E name \in ConcurrentNames :
       \E failureLimit \in FailureLimits :
         goroutines' = [goroutines EXCEPT ![g] =
             [Idle EXCEPT !.pc = "rr.lock", !.rateLimiterName = rateLimiterName,
                          !.name = name, !.failureLimit = failureLimit]]
    /\ started' = started + 1
    /\ UNCHANGED <<queue, rateLimiterMap, enqueued, ehCalls, mu, writes, planGenerator>>

\* RequestReconcile that takes the read lock.
RequestReconcileLock_Shared(g) ==
    /\ pc = "handler"
    /\ goroutines[g].pc = "rr.lock"
    /\ CanRLock(g)
    /\ mu' = [mu EXCEPT !.readers = @ \cup {g}]
    /\ goroutines' = Goto(g, "rr.queue")
    /\ UNCHANGED <<queue, rateLimiterMap, enqueued, ehCalls, writes, started, planGenerator>>

\* RequestReconcile: e.mu.Lock()
RequestReconcileLock(g) ==
    /\ pc = "handler"
    /\ goroutines[g].pc = "rr.lock"
    /\ CanLock(g)
    /\ mu' = [mu EXCEPT !.writer = g]
    /\ goroutines' = Goto(g, "rr.queue")
    /\ UNCHANGED <<queue, rateLimiterMap, enqueued, ehCalls, writes, started, planGenerator>>

\* RequestReconcile: if e.queue == nil { return false }
RequestReconcileQueue(g) ==
    /\ pc = "handler"
    /\ goroutines[g].pc = "rr.queue"
    /\ goroutines' = Goto(g, IF queue = NoQueue THEN "rr.unlock" ELSE "rr.lookup")
    /\ UNCHANGED <<queue, rateLimiterMap, enqueued, ehCalls, mu, writes, started, planGenerator>>

\* RequestReconcile: rateLimiter := e.rateLimiterMap[rateLimiterName]
RequestReconcileLookup(g) ==
    /\ pc = "handler"
    /\ goroutines[g].pc = "rr.lookup"
    /\ \E rateLimiter \in {lookupRateLimiter(goroutines[g].rateLimiterName)} :
         goroutines' = [goroutines EXCEPT
             ![g].rateLimiter = rateLimiter,
             ![g].pc = IF rateLimiter = <<>> THEN "rr.create" ELSE "rr.limit"]
    /\ UNCHANGED <<queue, rateLimiterMap, enqueued, ehCalls, mu, writes, started, planGenerator>>

\* RequestReconcile: the limiter is nil, a new one is made and stored.
RequestReconcileCreate(g) ==
    /\ pc = "handler"
    /\ goroutines[g].pc = "rr.create"
    /\ rateLimiterMap' = storeRateLimiter(goroutines[g].rateLimiterName,
                                          DefaultControllerRateLimiter)
    /\ writes' = Append(writes,
                        Write(g, "rateLimiterMap", goroutines[g].rateLimiterName))
    /\ goroutines' = [goroutines EXCEPT
           ![g].rateLimiter = <<DefaultControllerRateLimiter>>,
           ![g].pc = "rr.limit"]
    /\ UNCHANGED <<queue, enqueued, ehCalls, mu, started, planGenerator>>

\* RequestReconcile: the failure limit; rateLimiter.When(item) and
\* e.queue.AddAfter(item, when) when it is not exceeded.
RequestReconcileLimit(g) ==
    /\ pc = "handler"
    /\ goroutines[g].pc = "rr.limit"
    /\ \E rateLimiter \in {lookupRateLimiter(goroutines[g].rateLimiterName)[1]} :
         IF failureLimitExceeded(goroutines[g].failureLimit,
                                 NumRequeues(rateLimiter, goroutines[g].name))
         THEN /\ goroutines' = [goroutines EXCEPT ![g].ret = FALSE,
                                                  ![g].pc = "rr.unlock"]
              /\ UNCHANGED rateLimiterMap
         ELSE /\ rateLimiterMap' =
                    storeRateLimiter(goroutines[g].rateLimiterName,
                                     When(rateLimiter, goroutines[g].name))
              /\ goroutines' = [goroutines EXCEPT ![g].ret = TRUE,
                                                  ![g].pc = "rr.unlock"]
    /\ UNCHANGED <<queue, enqueued, ehCalls, mu, writes, started, planGenerator>>

\* RequestReconcile: the deferred e.mu.Unlock(), and the return.
RequestReconcileUnlock(g) ==
    /\ pc = "handler"
    /\ goroutines[g].pc = "rr.unlock"
    /\ mu' = [writer |-> IF mu.writer = g THEN NoGoroutine ELSE mu.writer,
              readers |-> mu.readers \ {g}]
    /\ goroutines' = [goroutines EXCEPT ![g] = [Idle EXCEPT !.ret = goroutines[g].ret]]
    /\ UNCHANGED <<queue, rateLimiterMap, enqueued, ehCalls, writes, started, planGenerator>>

\* A goroutine calls e.Forget(rateLimiterName, name).
CallForget(g) ==
    /\ pc = "handler"
    /\ goroutines[g].pc = "idle"
    /\ started < MaxStarted
    /\ \E rateLimiterName \in RateLimiterNames : \E name \in ConcurrentNames :
         goroutines' = [goroutines EXCEPT ![g] =
             [Idle EXCEPT !.pc = "fg.rlock", !.rateLimiterName = rateLimiterName,
                          !.name = name]]
    /\ started' = started + 1
    /\ UNCHANGED <<queue, rateLimiterMap, enqueued, ehCalls, mu, writes, planGenerator>>

\* Forget: e.mu.RLock()
ForgetRLock(g) ==
    /\ pc = "handler"
    /\ goroutines[g].pc = "fg.rlock"
    /\ CanRLock(g)
    /\ mu' = [mu EXCEPT !.readers = @ \cup {g}]
    /\ goroutines' = Goto(g, "fg.lookup")
    /\ UNCHANGED <<queue, rateLimiterMap, enqueued, ehCalls, writes, started, planGenerator>>

\* Forget: rateLimiter := e.rateLimiterMap[rateLimiterName]; return if nil.
ForgetLookup(g) ==
    /\ pc = "handler"
    /\ goroutines[g].pc = "fg.lookup"
    /\ \E rateLimiter \in {lookupRateLimiter(goroutines[g].rateLimiterName)} :
         goroutines' = [goroutines EXCEPT
             ![g].rateLimiter = rateLimiter,
             ![g].pc = IF rateLimiter = <<>> THEN "fg.runlock" ELSE "fg.forget"]
    /\ UNCHANGED <<queue, rateLimiterMap, enqueued, ehCalls, mu, writes, started, planGenerator>>

\* Forget: rateLimiter.Forget(item), on the limiter the map holds.
ForgetItemCall(g) ==
    /\ pc = "handler"
    /\ goroutines[g].pc = "fg.forget"
    /\ rateLimiterMap' =
          storeRateLimiter(goroutines[g].rateLimiterName,
              ForgetItem(lookupRateLimiter(goroutines[g].rateLimiterName)[1],
                         goroutines[g].name))
    /\ goroutines' = Goto(g, "fg.runlock")
    /\ UNCHANGED <<queue, enqueued, ehCalls, mu, writes, started, planGenerator>>

\* Forget: the deferred e.mu.RUnlock(), and the return.
ForgetRUnlock(g) ==
    /\ pc = "handler"
    /\ goroutines[g].pc = "fg.runlock"
    /\ mu' = [mu EXCEPT !.readers = @ \ {g}]
    /\ goroutines' = [goroutines EXCEPT ![g] = Idle]
    /\ UNCHANGED <<queue, rateLimiterMap, enqueued, ehCalls, writes, started, planGenerator>>

\* An event reaches a goroutine: Create, Update, Delete or Generic is
\* called with the object and the queue of the event.
CallEvent(g) ==
    /\ pc = "handler"
    /\ goroutines[g].pc = "idle"
    /\ started < MaxStarted
    /\ \E name \in EventObjects : \E limitingInterface \in Queues :
         goroutines' = [goroutines EXCEPT ![g] =
             [Idle EXCEPT !.pc = "ev.lock", !.name = name,
                          !.limitingInterface = limitingInterface]]
    /\ started' = started + 1
    /\ UNCHANGED <<queue, rateLimiterMap, enqueued, ehCalls, mu, writes, planGenerator>>

\* setQueue: e.mu.Lock()
SetQueueLock(g) ==
    /\ pc = "handler"
    /\ goroutines[g].pc = "ev.lock"
    /\ CanLock(g)
    /\ mu' = [mu EXCEPT !.writer = g]
    /\ goroutines' = Goto(g, "ev.set")
    /\ UNCHANGED <<queue, rateLimiterMap, enqueued, ehCalls, writes, started, planGenerator>>

\* setQueue: if e.queue == nil { e.queue = limitingInterface }
SetQueueAssign(g) ==
    /\ pc = "handler"
    /\ goroutines[g].pc = "ev.set"
    /\ queue' = setQueue(goroutines[g].limitingInterface)
    /\ writes' = IF queue = NoQueue
                 THEN Append(writes, Write(g, "queue", ""))
                 ELSE writes
    /\ goroutines' = Goto(g, "ev.unlock")
    /\ UNCHANGED <<rateLimiterMap, enqueued, ehCalls, mu, started, planGenerator>>

\* setQueue: the deferred e.mu.Unlock()
SetQueueUnlock(g) ==
    /\ pc = "handler"
    /\ goroutines[g].pc = "ev.unlock"
    /\ mu' = [mu EXCEPT !.writer = NoGoroutine]
    /\ goroutines' = Goto(g, "ev.inner")
    /\ UNCHANGED <<queue, rateLimiterMap, enqueued, ehCalls, writes, started, planGenerator>>

\* The inner handler adds the object's request to the event's queue.
InnerHandler(g) ==
    /\ pc = "handler"
    /\ goroutines[g].pc = "ev.inner"
    /\ enqueued' = [enqueued EXCEPT ![goroutines[g].limitingInterface] =
                        @ \cup {goroutines[g].name}]
    /\ goroutines' = [goroutines EXCEPT ![g] = Idle]
    /\ UNCHANGED <<queue, rateLimiterMap, ehCalls, mu, writes, started, planGenerator>>

LockNext ==
    \E g \in Goroutines :
       \/ CallRequestReconcile(g)
       \/ RequestReconcileLock(g)
       \/ RequestReconcileQueue(g)
       \/ RequestReconcileLookup(g)
       \/ RequestReconcileCreate(g)
       \/ RequestReconcileLimit(g)
       \/ RequestReconcileUnlock(g)
       \/ CallForget(g)
       \/ ForgetRLock(g)
       \/ ForgetLookup(g)
       \/ ForgetItemCall(g)
       \/ ForgetRUnlock(g)
       \/ CallEvent(g)
       \/ SetQueueLock(g)
       \/ SetQueueAssign(g)
       \/ SetQueueUnlock(g)
       \/ InnerHandler(g)

LockSpec == LockInit /\ [][LockNext]_vars

\* The writes of field, under key, in the history.
WritesOf(field, key) ==
    {i \in 1..Len(writes) : writes[i].field = field /\ writes[i].key = key}

\* A Forget that found no limiter under its name and is about to return.
ForgetFoundNone(g) ==
    goroutines[g].pc = "fg.runlock" /\ goroutines[g].rateLimiter = <<>>

\* C22: under every interleaving of concurrent RequestReconcile, Forget
\* and event calls, a rate limiter is stored at most once per name and the
\* map holds exactly the names stored (no entry is replaced or removed);
\* every write of the map and of the queue field is made by the goroutine
\* holding the exclusive lock, while no goroutine holds the read lock; and
\* the map is written only by RequestReconcile: a Forget that finds no
\* entry returns with none made.
C22_WritesUnderExclusiveLock ==
    /\ \A r \in RateLimiterNames :
          Cardinality(WritesOf("rateLimiterMap", r)) =
             (IF r \in DOMAIN rateLimiterMap THEN 1 ELSE 0)
    /\ Cardinality(WritesOf("queue", "")) = (IF queue = NoQueue THEN 0 ELSE 1)
    /\ \A i \in 1..Len(writes) :
          /\ writes[i].mu.writer = writes[i].by
          /\ writes[i].mu.readers = {}
          /\ writes[i].field = "rateLimiterMap" => writes[i].at = "rr.create"
          /\ writes[i].field = "queue" => writes[i].at = "ev.set"
    /\ mu.writer # NoGoroutine => mu.readers = {}
    /\ \A g \in Goroutines :
          /\ goroutines[g].pc \in {"fg.lookup", "fg.forget", "fg.runlock"}
                => g \in mu.readers /\ mu.writer = NoGoroutine
          /\ ForgetFoundNone(g) =>
                goroutines[g].rateLimiterName \notin DOMAIN rateLimiterMap

\* The queue and a rate limiter have been stored, and a Forget for another
\* name holds the read lock after finding no entry.
C22_Witness ==
    /\ \E r \in RateLimiterNames : WritesOf("rateLimiterMap", r) # {}
    /\ WritesOf("queue", "") # {}
    /\ \E g \in Goroutines : ForgetFoundNone(g) /\ g \in mu.readers

====
